---------------------------- MODULE Spec2Model ----------------------------
(***************************************************************************)
(* Model of the protocol analyzer of src/analyze.py: the capture loader,   *)
(* the burst segmenter, the symbol quantizer, the message classifier, the  *)
(* status payload decoder and the position counter decoder.                *)
(*                                                                         *)
(* Conventions.                                                            *)
(*  - Time is counted in whole microseconds (the source keeps seconds as   *)
(*    floats and multiplies by 1e6).  A transition is <<t, level>>.        *)
(*  - An (L,H) pair is <<l, h>>.                                           *)
(*  - A Python Optional is a sequence: None is <<>>, a value v is <<v>>.   *)
(*  - A formatted string f"UNKNOWN({a},{b})" is the tuple of its parts.    *)
(*  - Python sequences are 0-based, TLA+ sequences 1-based: py[i] is       *)
(*    s[i+1], py[a:b] is SubSeq(s, a+1, b).                                *)
(***************************************************************************)
EXTENDS Integers, Sequences, FiniteSets, TLC

VARIABLES
    channel,        \* make_message: the wire id of the burst
    burst,          \* make_message: the burst (sequence of transitions)
    message,        \* make_message: the Message returned, None before the call
    payload,        \* decode_type_b_state: the payload symbols
    status,         \* decode_type_b_state: the dict returned, None before the call
    payload_pairs,  \* decode_type_b_position: the payload (L,H) pairs
    pos_info,       \* decode_type_b_position: the dict returned, None before the call
    header,         \* parse_capture: the header line's format
    lines,          \* parse_capture: the data rows of the file
    parsed,         \* parse_capture: the outcome, None before the call
    capture,        \* analyze_capture: the rows of the capture file
    analysis,       \* analyze_capture: the CaptureAnalysis, None before the call
    pwm_burst,      \* decode_pwm: the burst
    pwm_symbols,    \* decode_pwm: the symbols returned, None before the call
    requantized,    \* decode_pwm: the symbols of the produced symbols sent again
    region_pairs,   \* decode_position_binary: the (L,H) pairs of a region
    binary,         \* decode_position_binary: (value, num_bits), None before the call
    b_vals,         \* unwrap_positions: the region-B values of consecutive messages
    unwrapped,      \* unwrap_positions: the list returned, None before the call
    hex_image,      \* self_test: the bytes the Intel HEX text was generated from
    hex_lines,      \* ihex_to_bin: the lines of the Intel HEX text
    bin_data,       \* ihex_to_bin: the bytes returned, None before the call
    wire_transitions, \* find_bursts: the transition list of one wire
    wire_bursts,    \* find_bursts: the list of bursts returned, None before the call
    tone_burst,     \* classify_burst: the burst
    burst_type,     \* classify_burst: the type returned, None before the call
    lh_burst,       \* burst_to_lh_pairs: the burst
    lh_err,         \* burst_to_lh_pairs: sign of the float error of each duration
    lh_pairs        \* burst_to_lh_pairs: the pairs returned, None before the call

vars == <<channel, burst, message, payload, status, payload_pairs, pos_info,
          header, lines, parsed, capture, analysis,
          pwm_burst, pwm_symbols, requantized, region_pairs, binary,
          b_vals, unwrapped, hex_image, hex_lines, bin_data,
          wire_transitions, wire_bursts, tone_burst, burst_type,
          lh_burst, lh_err, lh_pairs>>

None == <<>>
Some(v) == <<v>>

\* py[a:] of a sequence
From(s, a) == SubSeq(s, a + 1, Len(s))
\* py[:b] of a sequence, b >= 0
Upto(s, b) == SubSeq(s, 1, IF b < Len(s) THEN b ELSE Len(s))
\* py[a:b] of a sequence, 0 <= a
Slice(s, a, b) == SubSeq(s, a + 1, IF b < Len(s) THEN b ELSE Len(s))

IsPrefixOf(p, s) == Len(s) >= Len(p) /\ Upto(s, Len(p)) = p

-----------------------------------------------------------------------------
(* Protocol knowledge database *)

PWM_UNIT_US == 26
BURST_GAP_US == 10000
CROSSTALK_THRESH == 10
TYPE_B_HEADER_LEN == 8

\* exact-match catalogs, in the dict's insertion order: <<key, name, description>>
CH0_COMMANDS == <<
    << <<0,0,0,0,0,3>>, "CMD-INIT",
       <<"Boot hello/reset - first message from receiver after power-on">> >>,
    << <<1,7,1,1,5,1,4,2,9,2,3,2,4,2,1>>, "CMD-A",
       <<"Keepalive - sent every ~5s during normal operation">> >>,
    << <<1,7,1,1,5,1,4,2,9,1,3,2,1,2,2,1>>, "CMD-A1",
       <<"First keepalive - transitional variant sent once after handshake">> >>,
    << <<1,7,1,1,5,5,2,9,1,6,4,2>>, "CMD-R",
       <<"Door toggle - sent by receiver when remote button pressed">> >>,
    << <<1,7,1,1,5,1,3,2,2,6,1,6,1,1,2>>, "CMD-L",
       <<"Light toggle - sent by receiver when remote light button pressed">> >>,
    << <<1,7,1,1,5,5,1,9,1,7,2,1,1>>, "CMD-ECHO",
       <<"Post-command echo - sent after CMD-R or CMD-L">> >> >>

\* the list with CMD-B listed before CMD-B-INIT
CH0_PREFIXES_reordered == <<
    << <<1,7,3,4>>, "CMD-B", <<"Extended command (config/query)">> >>,
    << <<1,7,3,4,1,4,1,9>>, "CMD-B-INIT", <<"Boot handshake config message">> >>,
    << <<1,7,1,1,5>>, "CMD-?", <<"Unrecognized command (has command prefix)">> >> >>

CH0_PREFIXES == <<
    << <<1,7,3,4,1,4,1,9>>, "CMD-B-INIT", <<"Boot handshake config message">> >>,
    << <<1,7,3,4>>, "CMD-B", <<"Extended command (config/query)">> >>,
    << <<1,7,1,1,5>>, "CMD-?", <<"Unrecognized command (has command prefix)">> >> >>

CH1_RESPONSES == <<
    << <<1,7,3,5,1,4,1,9,1,1,2,1>>, "ACK-A", <<"ACK for CMD-A keepalive">> >>,
    << <<1,7,3,5,1,4,9,1,1,2>>, "ACK-A2", <<"ACK for CMD-A (boot/transitional variant)">> >>,
    << <<1,7,3,5,5,1,9,3,1,1>>, "ACK-R", <<"ACK for CMD-R door toggle">> >>,
    << <<1,7,3,5,1,3,1,9,1,1,1,1>>, "ACK-L", <<"ACK for CMD-L light toggle">> >>,
    << <<1,7,3,5,4,9,3>>, "ACK-B", <<"ACK for CMD-B extended command">> >>,
    << <<1,7,3,5,5,9,3,1>>, "ACK-B2", <<"ACK for CMD-B (boot variant)">> >> >>

CH1_PREFIXES == <<
    << <<1,7,2,1,4,6,2,9>>, "TYPE-B", <<"Status message (door/light/position state)">> >>,
    << <<1,7,3,1,3,2,3,2,9>>, "TYPE-C", <<"Full status message (extended state)">> >>,
    << <<1,7,4,4,6,1,9>>, "HANDSHAKE-D", <<"Boot handshake response (type D)">> >>,
    << <<1,7,4,4,2,3,1,9>>, "HANDSHAKE-E", <<"Boot handshake response (type E)">> >>,
    << <<1,7,5,3>>, "BOOT-F", <<"Boot-only message (seen once after handshake)">> >>,
    << <<1,7,1,1,5,5,1,9>>, "ECHO", <<"Command echo (relayed back by opener)">> >>,
    << <<1,7,3,5>>, "ACK-?", <<"Unrecognized ACK variant">> >>,
    << <<8,5,5>>, "BEACON", <<"Opener beacon (polling, no receiver connected)">> >> >>

TYPE_B_HEADER == <<1,7,2,1,4,6,2,9>>

\* door state from payload positions 0-1: <<key, tag>>
DOOR_STATE_MAP == <<
    << <<2,6>>, "IDLE_CLOSED" >>,
    << <<9,4>>, "IDLE_OPEN" >>,
    << <<1,6>>, "STARTING" >>,
    << <<1,2>>, "OPENING" >>,
    << <<1,3>>, "CLOSING" >>,
    << <<3,1>>, "STOPPED_MID_OPEN" >>,
    << <<2,1>>, "STOPPED_MID_CLOSE" >>,
    << <<5,3>>, "ARRIVED_OPEN" >>,
    << <<2,2>>, "ARRIVED_CLOSED" >>,
    << <<1,1>>, "OBSTRUCTION_REVERSAL" >> >>

\* sub-state from payload positions 2-4
SUB_STATE_MAP == <<
    << <<3,4,4>>, "ACTIVE" >>,
    << <<3,4,2>>, "SETTLED" >>,
    << <<3,3,3>>, "OBSTRUCTION" >>,
    << <<3,3,4>>, "REVERSING" >>,
    << <<4,2,1>>, "IDLE_OFF" >>,
    << <<4,3,1>>, "AT_ENDPOINT" >>,
    << <<4,3,2>>, "AT_ENDPOINT_2" >>,
    << <<4,4,1>>, "ACTIVATING" >>,
    << <<4,4,9>>, "ACTIVATING_2" >>,
    << <<3,9,1>>, "IDLE_OPEN" >>,
    << <<1,3,3>>, "REVERSAL_INIT" >>,
    << <<1,3,4>>, "REVERSAL_INIT_2" >> >>

\* light state from payload positions 1-4
LIGHT_PATTERNS == <<
    << <<6,4,2,1>>, "OFF" >>,
    << <<2,3,4,2>>, "ON" >> >>

DOOR_STATE_DESC == <<
    << "IDLE_CLOSED", "Door closed (idle)" >>,
    << "IDLE_OPEN", "Door open (idle)" >>,
    << "OPENING", "Door opening" >>,
    << "CLOSING", "Door closing" >>,
    << "STOPPED_MID_OPEN", "Door stopped mid-travel (was opening)" >>,
    << "STOPPED_MID_CLOSE", "Door stopped mid-travel (was closing)" >>,
    << "ARRIVED_OPEN", "Door just arrived at fully open" >>,
    << "ARRIVED_CLOSED", "Door just arrived at fully closed" >>,
    << "OBSTRUCTION_REVERSAL", "Obstruction detected, reversing" >>,
    << "STARTING", "Motor starting (brief transitional)" >> >>

\* dict.get(key): None or Some(value), over a table of <<key, value>> rows
DictGet(table, key) ==
    IF \E i \in 1..Len(table) : table[i][1] = key
    THEN Some(table[CHOOSE i \in 1..Len(table) : table[i][1] = key][2])
    ELSE None

\* dict.get(key, default)
DictGetOr(table, key, default) ==
    IF DictGet(table, key) = None THEN default ELSE DictGet(table, key)[1]

-----------------------------------------------------------------------------
(* Symbol quantizer *)

\* the quotient forced into the symbol range 1..9
RoundDiv_clamped(d, unit) ==
    LET q == (2 * d + unit) \div (2 * unit)
    IN  IF q < 1 THEN 1 ELSE IF q > 9 THEN 9 ELSE q

\* Python's round(d / unit) of a non-negative d: nearest integer, ties to even
RoundDiv(d, unit) ==
    LET q == d \div unit
        r == d % unit
    IN  IF 2 * r < unit THEN q
        ELSE IF 2 * r > unit THEN q + 1
        ELSE IF q % 2 = 0 THEN q ELSE q + 1

\* (state, duration_us) of every segment between two transitions
burst_pulses(b) ==
    [i \in 1..(Len(b) - 1) |-> << b[i][2], b[i+1][1] - b[i][1] >>]

\* the symbols of decode_pwm: the quantized low durations
decode_pwm(b) ==
    LET low == SelectSeq(burst_pulses(b), LAMBDA p : p[1] = 0)
    IN  [i \in 1..Len(low) |-> RoundDiv(low[i][2], PWM_UNIT_US)]

\* the while loop of burst_to_lh_pairs from index j (0-based) on
RECURSIVE lh_pairs_from(_, _)
lh_pairs_from(segs, j) ==
    IF j >= Len(segs) THEN <<>>
    ELSE IF segs[j+1][1] = 0
         THEN LET l == segs[j+1][2]
                  h == IF j + 1 < Len(segs) /\ segs[j+2][1] = 1
                       THEN segs[j+2][2] ELSE 0
              IN  << <<l, h>> >> \o lh_pairs_from(segs, IF h > 0 THEN j + 2 ELSE j + 1)
         ELSE lh_pairs_from(segs, j + 1)

\* round(dur_us / unit) of a duration computed as (t1 - t0) * 1e6 from float
\* seconds: the computed dur_us of a whole-microsecond duration d lies a hair
\* below d (e < 0), on d (e = 0) or a hair above d (e > 0); only a duration
\* halfway between two multiples of the unit is quantized differently for it
RoundDivFp(d, unit, e) ==
    IF 2 * (d % unit) = unit /\ e < 0 THEN d \div unit
    ELSE IF 2 * (d % unit) = unit /\ e > 0 THEN d \div unit + 1
    ELSE RoundDiv(d, unit)

\* burst_to_lh_pairs with the float error of every segment's duration given:
\* err[i] is the sign of the error of the duration after transition i
burst_to_lh_pairs_fp(b, err) ==
    LET segs == [i \in 1..(Len(b) - 1) |->
                    << b[i][2], RoundDivFp(b[i+1][1] - b[i][1], PWM_UNIT_US, err[i]) >>]
    IN  lh_pairs_from(segs, 0)

\* burst_to_lh_pairs where no duration is halfway between two multiples of the
\* unit, so that the float error of the durations does not show
burst_to_lh_pairs(b) ==
    LET segs == [i \in 1..(Len(b) - 1) |->
                    << b[i][2], RoundDiv(b[i+1][1] - b[i][1], PWM_UNIT_US) >>]
    IN  lh_pairs_from(segs, 0)

-----------------------------------------------------------------------------
(* Capture loader *)

\* The header line of a capture file, by the channel names it mentions
Headers == {"Time [s],Channel 0,Channel 1", "Time [s],Channel 0",
            "Time [s],Channel 1", "Time [s]"}
HasChannel0(h) == h \in {"Time [s],Channel 0,Channel 1", "Time [s],Channel 0"}
HasChannel1(h) == h \in {"Time [s],Channel 0,Channel 1", "Time [s],Channel 1"}

col_count_of(h) ==
    IF HasChannel0(h) /\ HasChannel1(h) THEN 3
    ELSE IF HasChannel0(h) THEN 2
    ELSE IF HasChannel1(h) THEN 2
    ELSE 3

\* ch_map[0] of the two-column formats
single_channel_of(h) == IF HasChannel0(h) THEN 0 ELSE 1

\* A data row is the list of its comma-separated fields; a field is
\* [num |-> whether float()/int() accepts its text, val |-> the number read].
\* every sample appended, repeated levels included
record_level_every_row(st, ch, t, val) ==
    [st EXCEPT !.channels[ch + 1] = Append(@, <<t, val>>),
               !.prev[ch + 1] = Some(val)]

\* if prev[ch] is None or val != prev[ch]: append and remember
record_level(st, ch, t, val) ==
    IF st.prev[ch + 1] = None \/ st.prev[ch + 1] # Some(val)
    THEN [st EXCEPT !.channels[ch + 1] = Append(@, <<t, val>>),
                    !.prev[ch + 1] = Some(val)]
    ELSE st

\* the body of the loop over the lines; raised stands for the ValueError that
\* float() or int() throws on a non-numeric field, which nothing catches
parse_row(parts, st, h) ==
    IF Len(parts) < 2 THEN st
    ELSE IF ~parts[1].num THEN [st EXCEPT !.raised = TRUE]
    ELSE IF col_count_of(h) = 3 /\ Len(parts) >= 3
         THEN IF ~parts[2].num \/ ~parts[3].num THEN [st EXCEPT !.raised = TRUE]
              ELSE record_level(record_level(st, 0, parts[1].val, parts[2].val),
                                1, parts[1].val, parts[3].val)
    ELSE IF col_count_of(h) = 2 /\ Len(parts) >= 2
         THEN IF ~parts[2].num THEN [st EXCEPT !.raised = TRUE]
              ELSE record_level(st, single_channel_of(h), parts[1].val, parts[2].val)
    ELSE st

RECURSIVE parse_rows(_, _, _)
parse_rows(rows, st, h) ==
    IF rows = <<>> \/ st.raised THEN st
    ELSE parse_rows(Tail(rows), parse_row(rows[1], st, h), h)

\* channels[ch + 1] is the transition list of wire ch; when raised, the call
\* returned nothing
parse_capture(h, rows) ==
    LET st == parse_rows(rows, [raised |-> FALSE, channels |-> << <<>>, <<>> >>,
                                prev |-> <<None, None>>], h)
    IN  IF st.raised
        THEN [raised |-> TRUE, channels |-> << <<>>, <<>> >>, col_count |-> col_count_of(h)]
        ELSE [raised |-> FALSE, channels |-> st.channels, col_count |-> col_count_of(h)]

-----------------------------------------------------------------------------
(* Burst segmenter *)

\* a gap equal to the threshold splitting like a longer one
RECURSIVE split_bursts_at_threshold(_, _, _, _)
split_bursts_at_threshold(tr, i, current, bursts) ==
    IF i > Len(tr)
    THEN IF current # <<>> THEN Append(bursts, current) ELSE bursts
    ELSE IF tr[i][1] - tr[i-1][1] >= BURST_GAP_US
         THEN split_bursts_at_threshold(tr, i + 1, <<tr[i]>>, Append(bursts, current))
         ELSE split_bursts_at_threshold(tr, i + 1, Append(current, tr[i]), bursts)

\* the loop of find_bursts from index i (1-based) on, current being the open burst
RECURSIVE split_bursts(_, _, _, _)
split_bursts(tr, i, current, bursts) ==
    IF i > Len(tr)
    THEN IF current # <<>> THEN Append(bursts, current) ELSE bursts
    ELSE IF tr[i][1] - tr[i-1][1] > BURST_GAP_US
         THEN split_bursts(tr, i + 1, <<tr[i]>>, Append(bursts, current))
         ELSE split_bursts(tr, i + 1, Append(current, tr[i]), bursts)

find_bursts(tr) ==
    IF Len(tr) < 2 THEN <<>> ELSE split_bursts(tr, 2, <<tr[1]>>, <<>>)

SeqMax(s) == CHOOSE x \in {s[i] : i \in 1..Len(s)} : \A i \in 1..Len(s) : s[i] <= x
SeqMin(s) == CHOOSE x \in {s[i] : i \in 1..Len(s)} : \A i \in 1..Len(s) : x <= s[i]

\* a burst of exactly 20 transitions taken for a carrier
classify_burst_at_twenty(b) ==
    IF Len(b) < 5 THEN "short"
    ELSE LET low == SelectSeq(burst_pulses(b), LAMBDA p : p[1] = 0)
             low_durations == [i \in 1..Len(low) |-> low[i][2]]
         IN  IF low_durations = <<>> THEN "short"
             ELSE IF SeqMax(low_durations) - SeqMin(low_durations) > 50 THEN "data"
             ELSE IF Len(b) >= 20 THEN "carrier"
             ELSE "data"

classify_burst(b) ==
    IF Len(b) < 5 THEN "short"
    ELSE LET low == SelectSeq(burst_pulses(b), LAMBDA p : p[1] = 0)
             low_durations == [i \in 1..Len(low) |-> low[i][2]]
         IN  IF low_durations = <<>> THEN "short"
             ELSE IF SeqMax(low_durations) - SeqMin(low_durations) > 50 THEN "data"
             ELSE IF Len(b) > 20 THEN "carrier"
             ELSE "data"

-----------------------------------------------------------------------------
(* Position counter decoder *)

Ones(n) == [i \in 1..n |-> 1]
Zeros(n) == [i \in 1..n |-> 0]

\* a pair at the threshold discarded with those above it
RECURSIVE position_bitstream_at_threshold(_)
position_bitstream_at_threshold(data_pairs) ==
    IF data_pairs = <<>> THEN <<>>
    ELSE LET l == data_pairs[1][1]
             h == data_pairs[1][2]
             rest == position_bitstream_at_threshold(Tail(data_pairs))
         IN  IF h >= CROSSTALK_THRESH THEN rest
             ELSE Ones(l) \o (IF h > 0 THEN Zeros(h) ELSE <<>>) \o rest

\* the bit list built by the loop of decode_position_binary
RECURSIVE position_bitstream(_)
position_bitstream(data_pairs) ==
    IF data_pairs = <<>> THEN <<>>
    ELSE LET l == data_pairs[1][1]
             h == data_pairs[1][2]
             rest == position_bitstream(Tail(data_pairs))
         IN  IF h > CROSSTALK_THRESH THEN rest
             ELSE Ones(l) \o (IF h > 0 THEN Zeros(h) ELSE <<>>) \o rest

\* sum(bit << i for i, bit in enumerate(bits))
RECURSIVE lsb_first_value(_)
lsb_first_value(bits) ==
    IF bits = <<>> THEN 0 ELSE bits[1] + 2 * lsb_first_value(Tail(bits))

\* the empty bitstream read as the number 0
decode_position_binary_zero(data_pairs) ==
    LET bits == position_bitstream(data_pairs)
    IN  [value |-> Some(lsb_first_value(bits)), num_bits |-> Len(bits)]

\* (value, num_bits), or (None, 0) when no pair contributed a bit
decode_position_binary(data_pairs) ==
    LET bits == position_bitstream(data_pairs)
    IN  IF bits = <<>> THEN [value |-> None, num_bits |-> 0]
        ELSE [value |-> Some(lsb_first_value(bits)), num_bits |-> Len(bits)]

\* the search started at the head of the field, the prefix included
delimiter_hits_from_head(pos_l, data_start) ==
    {i \in 0..(Len(pos_l) - 2) :
        \/ pos_l[i+1] = 7 /\ pos_l[i+2] = 9
        \/ pos_l[i+1] = 9 /\ pos_l[i+2] = 9}

\* 0-based indices i in range(data_start, len(pos_l) - 1) holding a delimiter
delimiter_hits(pos_l, data_start) ==
    {i \in data_start..(Len(pos_l) - 2) :
        \/ pos_l[i+1] = 7 /\ pos_l[i+2] = 9
        \/ pos_l[i+1] = 9 /\ pos_l[i+2] = 9}

decode_type_b_position(pp) ==
    LET result == [position |-> None, position_a |-> None, position_bits |-> 0,
                   position_prefix |-> None, position_delimiter |-> None]
    IN  IF Len(pp) <= 5 THEN result
        ELSE
        LET pos_pairs == From(pp, 5)
            pos_l == [i \in 1..Len(pos_pairs) |-> pos_pairs[i][1]]
            is17 == Len(pos_l) >= 2 /\ pos_l[1] = 1 /\ pos_l[2] = 7
            is9 == Len(pos_l) >= 1 /\ pos_l[1] = 9
            prefix == IF is17 THEN Some("1,7") ELSE IF is9 THEN Some("9") ELSE None
            data_start == IF is17 THEN 2 ELSE IF is9 THEN 1 ELSE 0
            hits == delimiter_hits(pos_l, data_start)
            found == hits # {}
            delim_idx == CHOOSE i \in hits : \A k \in hits : i <= k
            delim_type == IF pos_l[delim_idx+1] = 7 THEN "7,9" ELSE "9,9"
            r1 == [result EXCEPT !.position_prefix = prefix]
        IN  IF ~found THEN r1
            ELSE
            LET r2 == [r1 EXCEPT !.position_delimiter = Some(delim_type)]
                a_pairs == Slice(pos_pairs, data_start, delim_idx)
                b_pairs == From(pos_pairs, delim_idx + 2)
                r3 == IF a_pairs # <<>>
                      THEN [r2 EXCEPT !.position_a = decode_position_binary(a_pairs).value]
                      ELSE r2
            IN  IF b_pairs # <<>>
                THEN [r3 EXCEPT !.position = decode_position_binary(b_pairs).value,
                                !.position_bits = decode_position_binary(b_pairs).num_bits]
                ELSE r3

-----------------------------------------------------------------------------
(* Message classifier *)

\* index of the exact-match row whose key is the symbol sequence, 0 when none
ExactIndex(table, symbols) ==
    IF \E i \in 1..Len(table) : table[i][1] = symbols
    THEN CHOOSE i \in 1..Len(table) : table[i][1] = symbols
    ELSE 0

\* the last matching row taken instead of the first
LastPrefixIndex(table, symbols) ==
    LET hits == {i \in 1..Len(table) : IsPrefixOf(table[i][1], symbols)}
    IN  IF hits = {} THEN 0 ELSE CHOOSE i \in hits : \A k \in hits : i >= k

\* index of the first row, in listed order, whose prefix starts the symbols; 0 when none
FirstPrefixIndex(table, symbols) ==
    LET hits == {i \in 1..Len(table) : IsPrefixOf(table[i][1], symbols)}
    IN  IF hits = {} THEN 0 ELSE CHOOSE i \in hits : \A k \in hits : i <= k

\* the prefix list consulted before the exact-match catalog
classify_ch0_prefix_first(symbols) ==
    LET e == ExactIndex(CH0_COMMANDS, symbols)
        p == FirstPrefixIndex(CH0_PREFIXES, symbols)
    IN  IF p # 0
        THEN [name |-> CH0_PREFIXES[p][2], description |-> CH0_PREFIXES[p][3],
              category |-> "COMMAND", header_len |-> Len(CH0_PREFIXES[p][1])]
        ELSE IF e # 0
        THEN [name |-> CH0_COMMANDS[e][2], description |-> CH0_COMMANDS[e][3],
              category |-> "COMMAND", header_len |-> Len(symbols)]
        ELSE [name |-> "CH0-UNKNOWN",
              description |-> <<"Unrecognized CH0 message (", Len(symbols), " symbols)">>,
              category |-> "UNKNOWN", header_len |-> 0]

\* a prefix match returning the whole length as an exact match does
classify_ch0_header_full(symbols) ==
    LET e == ExactIndex(CH0_COMMANDS, symbols)
        p == FirstPrefixIndex(CH0_PREFIXES, symbols)
    IN  IF e # 0
        THEN [name |-> CH0_COMMANDS[e][2], description |-> CH0_COMMANDS[e][3],
              category |-> "COMMAND", header_len |-> Len(symbols)]
        ELSE IF p # 0
        THEN [name |-> CH0_PREFIXES[p][2], description |-> CH0_PREFIXES[p][3],
              category |-> "COMMAND", header_len |-> Len(symbols)]
        ELSE [name |-> "CH0-UNKNOWN",
              description |-> <<"Unrecognized CH0 message (", Len(symbols), " symbols)">>,
              category |-> "UNKNOWN", header_len |-> 0]

\* the TYPE-B header recognised on wire 0 as it is on wire 1
classify_ch0_with_status(symbols) ==
    LET e == ExactIndex(CH0_COMMANDS, symbols)
        p == FirstPrefixIndex(CH0_PREFIXES, symbols)
    IN  IF e # 0
        THEN [name |-> CH0_COMMANDS[e][2], description |-> CH0_COMMANDS[e][3],
              category |-> "COMMAND", header_len |-> Len(symbols)]
        ELSE IF p # 0
        THEN [name |-> CH0_PREFIXES[p][2], description |-> CH0_PREFIXES[p][3],
              category |-> "COMMAND", header_len |-> Len(CH0_PREFIXES[p][1])]
        ELSE IF IsPrefixOf(TYPE_B_HEADER, symbols)
        THEN [name |-> "TYPE-B", description |-> "Status message",
              category |-> "COMMAND", header_len |-> TYPE_B_HEADER_LEN]
        ELSE [name |-> "CH0-UNKNOWN",
              description |-> <<"Unrecognized CH0 message (", Len(symbols), " symbols)">>,
              category |-> "UNKNOWN", header_len |-> 0]

classify_ch0(symbols) ==
    LET e == ExactIndex(CH0_COMMANDS, symbols)
        p == FirstPrefixIndex(CH0_PREFIXES, symbols)
    IN  IF e # 0
        THEN [name |-> CH0_COMMANDS[e][2], description |-> CH0_COMMANDS[e][3],
              category |-> "COMMAND", header_len |-> Len(symbols)]
        ELSE IF p # 0
        THEN [name |-> CH0_PREFIXES[p][2], description |-> CH0_PREFIXES[p][3],
              category |-> "COMMAND", header_len |-> Len(CH0_PREFIXES[p][1])]
        ELSE [name |-> "CH0-UNKNOWN",
              description |-> <<"Unrecognized CH0 message (", Len(symbols), " symbols)">>,
              category |-> "UNKNOWN", header_len |-> 0]

\* the category expression of classify_ch1; "HANDSHAKE" in name and "BOOT" in name
\* are spelled out over the names of CH1_PREFIXES
ch1_category(name) ==
    DictGetOr(<< <<"TYPE-B", "STATUS">>, <<"TYPE-C", "FULL_STATUS">>,
                 <<"BEACON", "BEACON">>, <<"ECHO", "ECHO">> >>,
              name,
              IF name \in {"HANDSHAKE-D", "HANDSHAKE-E"} \/ name \in {"BOOT-F"}
              THEN "HANDSHAKE" ELSE "UNKNOWN")

\* the unknown case returning the full length as an exact match does
classify_ch1_unknown_full(symbols) ==
    LET e == ExactIndex(CH1_RESPONSES, symbols)
        p == FirstPrefixIndex(CH1_PREFIXES, symbols)
    IN  IF e # 0
        THEN [name |-> CH1_RESPONSES[e][2], description |-> CH1_RESPONSES[e][3],
              category |-> "ACK", header_len |-> Len(symbols)]
        ELSE IF p # 0
        THEN [name |-> CH1_PREFIXES[p][2], description |-> CH1_PREFIXES[p][3],
              category |-> ch1_category(CH1_PREFIXES[p][2]),
              header_len |-> Len(CH1_PREFIXES[p][1])]
        ELSE [name |-> "CH1-UNKNOWN",
              description |-> <<"Unrecognized CH1 message (", Len(symbols), " symbols)">>,
              category |-> "UNKNOWN", header_len |-> Len(symbols)]

classify_ch1(symbols) ==
    LET e == ExactIndex(CH1_RESPONSES, symbols)
        p == FirstPrefixIndex(CH1_PREFIXES, symbols)
    IN  IF e # 0
        THEN [name |-> CH1_RESPONSES[e][2], description |-> CH1_RESPONSES[e][3],
              category |-> "ACK", header_len |-> Len(symbols)]
        ELSE IF p # 0
        THEN [name |-> CH1_PREFIXES[p][2], description |-> CH1_PREFIXES[p][3],
              category |-> ch1_category(CH1_PREFIXES[p][2]),
              header_len |-> Len(CH1_PREFIXES[p][1])]
        ELSE [name |-> "CH1-UNKNOWN",
              description |-> <<"Unrecognized CH1 message (", Len(symbols), " symbols)">>,
              category |-> "UNKNOWN", header_len |-> 0]

-----------------------------------------------------------------------------
(* Status payload decoder *)

\* the lookup misplaced by one symbol
door_lookup_shifted(p) == DictGet(DOOR_STATE_MAP, Slice(p, 1, 3))

\* DOOR_STATE_MAP.get(tuple(payload[0:2]))
door_lookup(p) == DictGet(DOOR_STATE_MAP, Slice(p, 0, 2))

\* the light looked up whatever the door state is
light_evaluated_always(door_state) == TRUE

\* door_state in ("IDLE_CLOSED", "ARRIVED_CLOSED", None)
light_evaluated(door_state) ==
    door_state \in {Some("IDLE_CLOSED"), Some("ARRIVED_CLOSED"), None}

\* the refinement applied without looking at the door state
door_refined_any_door(light, door_state, sub) ==
    light = Some("ON") /\ sub = Some("SETTLED")

\* the refinement asking for a light that is off
door_refined_light_off(light, door_state, sub) ==
    light = Some("OFF") /\ door_state = Some("ARRIVED_CLOSED") /\ sub = Some("SETTLED")

\* light == "ON" and door_state == "ARRIVED_CLOSED" and sub == "SETTLED"
door_refined(light, door_state, sub) ==
    light = Some("ON") /\ door_state = Some("ARRIVED_CLOSED") /\ sub = Some("SETTLED")

decode_type_b_state(p) ==
    LET result == [raw_payload |-> p, door |-> None, door_desc |-> None,
                   sub_state |-> None, light |-> None, position_raw |-> None,
                   position |-> None, position_a |-> None, position_bits |-> 0,
                   position_prefix |-> None, position_delimiter |-> None]
    IN  IF Len(p) < 2 THEN result
        ELSE
        LET door_state == door_lookup(p)
            r1 == IF door_state # None
                  THEN [result EXCEPT
                          !.door = door_state,
                          !.door_desc = Some(DictGetOr(DOOR_STATE_DESC, door_state[1],
                                                       door_state[1]))]
                  ELSE [result EXCEPT !.door = <<"UNKNOWN(", p[1], ",", p[2], ")">>]
            r2 == IF Len(p) >= 5
                  THEN [r1 EXCEPT !.sub_state =
                          IF DictGet(SUB_STATE_MAP, Slice(p, 2, 5)) # None
                          THEN DictGet(SUB_STATE_MAP, Slice(p, 2, 5))
                          ELSE <<"(", p[3], ",", p[4], ",", p[5], ")">>]
                  ELSE r1
            light == IF Len(p) >= 5 THEN DictGet(LIGHT_PATTERNS, Slice(p, 1, 5)) ELSE None
            r3 == IF /\ Len(p) >= 5
                     /\ light_evaluated(door_state)
                     /\ light # None
                  THEN LET r3a == [r2 EXCEPT !.light = light]
                       IN  IF door_refined(light, door_state, r3a.sub_state)
                           THEN [r3a EXCEPT !.door = Some("IDLE_CLOSED"),
                                            !.door_desc = Some("Door closed (idle), light on")]
                           ELSE r3a
                  ELSE r2
        IN  IF Len(p) >= 8 THEN [r3 EXCEPT !.position_raw = Some(From(p, 5))] ELSE r3

-----------------------------------------------------------------------------
(* Message assembly *)

\* the dict replaced instead of updated
DictUpdate_replace(d, u) == u

\* dict.update: the keys of u are written, every other key of d is kept
DictUpdate(d, u) ==
    [k \in (DOMAIN d) \cup (DOMAIN u) |-> IF k \in DOMAIN u THEN u[k] ELSE d[k]]

make_message(time, ch, b) ==
    LET symbols == decode_pwm(b)
        c == IF ch = 0 THEN classify_ch0(symbols) ELSE classify_ch1(symbols)
        state == IF c.name = "TYPE-B" /\ Len(symbols) > TYPE_B_HEADER_LEN
                 THEN LET st == decode_type_b_state(From(symbols, TYPE_B_HEADER_LEN))
                          pairs == burst_to_lh_pairs(b)
                      IN  IF Len(pairs) > TYPE_B_HEADER_LEN
                          THEN Some(DictUpdate(st,
                                   decode_type_b_position(From(pairs, TYPE_B_HEADER_LEN))))
                          ELSE Some(st)
                 ELSE None
    IN  [time |-> time, channel |-> ch, symbols |-> symbols, name |-> c.name,
         description |-> c.description, category |-> c.category,
         header |-> Upto(symbols, c.header_len),
         payload |-> From(symbols, c.header_len),
         state |-> state]

-----------------------------------------------------------------------------
(* Capture analysis *)

\* every burst that is not short made into a message
RECURSIVE scan_bursts_not_short(_, _, _)
scan_bursts_not_short(ch_num, bursts, acc) ==
    IF bursts = <<>> THEN acc
    ELSE LET b == bursts[1]
             btype == classify_burst(b)
         IN  scan_bursts_not_short(ch_num, Tail(bursts),
                IF btype # "short"
                THEN [acc EXCEPT !.messages = Append(@, make_message(b[1][1], ch_num, b))]
                ELSE acc)

\* the loop over the bursts of one wire: acc holds messages and carrier_count
RECURSIVE scan_bursts(_, _, _)
scan_bursts(ch_num, bursts, acc) ==
    IF bursts = <<>> THEN acc
    ELSE LET b == bursts[1]
             btype == classify_burst(b)
         IN  scan_bursts(ch_num, Tail(bursts),
                IF btype = "data"
                THEN [acc EXCEPT !.messages = Append(@, make_message(b[1][1], ch_num, b))]
                ELSE IF btype = "carrier"
                THEN [acc EXCEPT !.carrier_count = @ + 1]
                ELSE acc)

\* for ch_num in [0, 1]: a wire without transitions is skipped
scan_channel(ch_num, channels, acc) ==
    IF channels[ch_num + 1] = <<>> THEN acc
    ELSE scan_bursts(ch_num, find_bursts(channels[ch_num + 1]), acc)

\* the list left as the loop over the wires built it
sort_by_time_missing(ms) == ms

\* list.sort(key=lambda m: m.time): stable, messages of equal time keep their order
sort_by_time(ms) ==
    LET rank(i) == Cardinality({j \in 1..Len(ms) :
                        \/ ms[j].time < ms[i].time
                        \/ ms[j].time = ms[i].time /\ j < i}) + 1
    IN  [k \in 1..Len(ms) |-> ms[CHOOSE i \in 1..Len(ms) : rank(i) = k]]

Max2(a, b) == IF a > b THEN a ELSE b

\* pwm_unit_stats and the file's name, description and group are left out: no
\* other field is computed from them
analyze_capture(h, rows) ==
    LET p == parse_capture(h, rows)
        channels == p.channels
        last(ch) == IF channels[ch + 1] = <<>> THEN 0
                    ELSE channels[ch + 1][Len(channels[ch + 1])][1]
        acc == scan_channel(1, channels,
                   scan_channel(0, channels, [messages |-> <<>>, carrier_count |-> 0]))
        messages == sort_by_time(acc.messages)
    IN  IF p.raised
        THEN [raised |-> TRUE, duration |-> 0, columns |-> p.col_count, messages |-> <<>>,
              ch0_count |-> 0, ch1_count |-> 0, carrier_blocks |-> 0]
        ELSE [raised |-> FALSE,
              duration |-> Max2(Max2(0, last(0)), last(1)),
              columns |-> p.col_count,
              messages |-> messages,
              ch0_count |-> Len(SelectSeq(messages, LAMBDA m : m.channel = 0)),
              ch1_count |-> Len(SelectSeq(messages, LAMBDA m : m.channel = 1)),
              carrier_blocks |-> acc.carrier_count]

-----------------------------------------------------------------------------
(* Position unwrapping (src/binary_decode.py) *)

\* the loop with a value of 0 remembered as the previous value
RECURSIVE unwrap_from_zero_remembered(_, _, _, _)
unwrap_from_zero_remembered(vals, wrap_offset, prev, result) ==
    IF vals = <<>> THEN result
    ELSE LET b == vals[1]
         IN  IF b = 0
             THEN unwrap_from_zero_remembered(Tail(vals), wrap_offset, Some(b),
                                              Append(result, None))
             ELSE LET off == IF prev # None /\ b - prev[1] < -256 THEN wrap_offset + 512
                             ELSE IF prev # None /\ b - prev[1] > 256 THEN wrap_offset - 512
                             ELSE wrap_offset
                  IN  unwrap_from_zero_remembered(Tail(vals), off, Some(b),
                                                  Append(result, Some(b + off)))

\* the loop of unwrap_positions over the values left; an entry of the result
\* is None or Some(number)
RECURSIVE unwrap_from(_, _, _, _)
unwrap_from(vals, wrap_offset, prev, result) ==
    IF vals = <<>> THEN result
    ELSE LET b == vals[1]
         IN  IF b = 0
             THEN unwrap_from(Tail(vals), wrap_offset, prev, Append(result, None))
             ELSE LET off == IF prev # None /\ b - prev[1] < -256 THEN wrap_offset + 512
                             ELSE IF prev # None /\ b - prev[1] > 256 THEN wrap_offset - 512
                             ELSE wrap_offset
                  IN  unwrap_from(Tail(vals), off, Some(b), Append(result, Some(b + off)))

\* the direction argument is never read
unwrap_positions(vals) ==
    IF vals = <<>> THEN <<>> ELSE unwrap_from(vals, 0, None, <<>>)

-----------------------------------------------------------------------------
(* Intel HEX reader (src/dump_collect.py) *)

\* A line of text is the sequence of its characters.
HexDigits == <<"0","1","2","3","4","5","6","7","8","9","A","B","C","D","E","F">>
LowerHexDigits == <<"0","1","2","3","4","5","6","7","8","9","a","b","c","d","e","f">>

\* int(c, 16) of one hexadecimal digit, in either case
HexVal(c) ==
    IF \E i \in 1..16 : HexDigits[i] = c
    THEN (CHOOSE i \in 1..16 : HexDigits[i] = c) - 1
    ELSE (CHOOSE i \in 1..16 : LowerHexDigits[i] = c) - 1

\* int(text, 16) of a run of hexadecimal digits
RECURSIVE HexInt(_)
HexInt(text) ==
    IF text = <<>> THEN 0
    ELSE 16 * HexInt(Upto(text, Len(text) - 1)) + HexVal(text[Len(text)])

Whitespace == {" ", "\t", "\r", "\n"}

\* str.strip(): the line without its leading and trailing whitespace
strip(line) ==
    LET inked == {i \in 1..Len(line) : line[i] \notin Whitespace}
    IN  IF inked = {} THEN <<>>
        ELSE SubSeq(line, CHOOSE i \in inked : \A k \in inked : i <= k,
                          CHOOSE i \in inked : \A k \in inked : i >= k)

\* for i in range(byte_count): data[address + i] = int(line[9+i*2 : 11+i*2], 16)
store_bytes(data, line, byte_count, address) ==
    [a \in (DOMAIN data) \cup {address + i : i \in 0..(byte_count - 1)} |->
        IF a - address \in 0..(byte_count - 1)
        THEN HexInt(Slice(line, 9 + (a - address) * 2, 11 + (a - address) * 2))
        ELSE data[a]]

\* the end-of-file record passed over like any other record type
RECURSIVE ihex_scan_past_eof(_, _)
ihex_scan_past_eof(hex, data) ==
    IF hex = <<>> THEN data
    ELSE LET line == strip(hex[1])
         IN  IF Len(line) < 11 \/ line[1] # ":" THEN ihex_scan_past_eof(Tail(hex), data)
             ELSE IF HexInt(Slice(line, 7, 9)) = 0
             THEN ihex_scan_past_eof(Tail(hex),
                      store_bytes(data, line, HexInt(Slice(line, 1, 3)),
                                  HexInt(Slice(line, 3, 7))))
             ELSE ihex_scan_past_eof(Tail(hex), data)

\* the loop over the lines: data maps an address to its byte.  The lines
\* that start with ':' hold hexadecimal digits wherever int() reads.
RECURSIVE ihex_scan(_, _)
ihex_scan(hex, data) ==
    IF hex = <<>> THEN data
    ELSE LET line == strip(hex[1])
         IN  IF Len(line) < 11 \/ line[1] # ":" THEN ihex_scan(Tail(hex), data)
             ELSE IF HexInt(Slice(line, 7, 9)) = 0
             THEN ihex_scan(Tail(hex),
                      store_bytes(data, line, HexInt(Slice(line, 1, 3)),
                                  HexInt(Slice(line, 3, 7))))
             ELSE IF HexInt(Slice(line, 7, 9)) = 1 THEN data
             ELSE ihex_scan(Tail(hex), data)

\* the bytes from the lowest to the highest address stored, 0 where none was
ihex_to_bin(hex) ==
    LET data == ihex_scan(hex, <<>>)
        addrs == DOMAIN data
        min_addr == CHOOSE a \in addrs : \A k \in addrs : a <= k
        max_addr == CHOOSE a \in addrs : \A k \in addrs : a >= k
    IN  IF addrs = {} THEN <<>>
        ELSE [k \in 1..(max_addr - min_addr + 1) |->
                 IF min_addr + k - 1 \in addrs THEN data[min_addr + k - 1] ELSE 0]

\* f"{n:02X}" and f"{n:04X}"
Hex2(n) == <<HexDigits[(n \div 16) + 1], HexDigits[(n % 16) + 1]>>
Hex4(n) == Hex2(n \div 256) \o Hex2(n % 256)

RECURSIVE SeqSum(_)
SeqSum(q) == IF q = <<>> THEN 0 ELSE q[1] + SeqSum(Tail(q))

RECURSIVE HexOfBytes(_)
HexOfBytes(bytes) == IF bytes = <<>> THEN <<>> ELSE Hex2(bytes[1]) \o HexOfBytes(Tail(bytes))

\* the data record self_test writes for the bytes at addr
DataRecord(addr, bytes) ==
    LET cksum == (Len(bytes) + (addr \div 256) + (addr % 256) + 0 + SeqSum(bytes)) % 256
    IN  <<":">> \o Hex2(Len(bytes)) \o Hex4(addr) \o <<"0", "0">>
        \o HexOfBytes(bytes) \o Hex2((256 - cksum) % 256)

\* ":00000001FF"
EofRecord == <<":", "0", "0", "0", "0", "0", "0", "0", "1", "F", "F">>

-----------------------------------------------------------------------------
(* Bounds and input sets *)

MaxTail == 2        \* symbols appended to a catalog pattern
MaxLen == 3         \* length of a free symbol sequence
MaxField == 3       \* pairs of a position field inside a whole TYPE-B burst
MaxPayload == 5     \* length of a free status payload
MaxPos == 5         \* pairs of a free position field
MaxBits == 30       \* bits of a free position field: its value stays a 32-bit integer

\* all sequences of length 0..n over the set S
SeqsUpTo(S, n) == UNION {[1..k -> S] : k \in 0..n}

\* deviation of a low duration from the nominal L * 26 us
Jitters == {-12, 0, 12}

\* the low duration, in us, that transmits symbol l; a capture has no empty segment
LowDur(l, jit) == IF l * PWM_UNIT_US + jit < 1 THEN 1 ELSE l * PWM_UNIT_US + jit

\* the transitions of a burst that starts at time t with a falling edge and sends
\* the pairs in order; it ends with the rising edge that closes the last low
RECURSIVE BurstOf(_, _, _)
BurstOf(pairs, t, jit) ==
    IF pairs = <<>> THEN <<>>
    ELSE LET low == LowDur(pairs[1][1], jit)
             high == pairs[1][2] * PWM_UNIT_US
         IN  << <<t, 0>>, <<t + low, 1>> >> \o BurstOf(Tail(pairs), t + low + high, jit)

\* a symbol sequence sent with one-unit high separators
WithSeparators(symbols) == [i \in 1..Len(symbols) |-> <<symbols[i], 1>>]

Keys(table) == {table[i][1] : i \in 1..Len(table)}
ExactKeys == Keys(CH0_COMMANDS) \cup Keys(CH1_RESPONSES)
PrefixKeys == Keys(CH0_PREFIXES) \cup Keys(CH1_PREFIXES)

SymbolInputs ==
    {k \o t : k \in ExactKeys \cup PrefixKeys, t \in SeqsUpTo({1, 9}, MaxTail)}
    \cup {Upto(k, Len(k) - 1) : k \in ExactKeys}
    \cup SeqsUpTo({1, 5, 7, 8}, MaxLen)

\* whole TYPE-B bursts: header, five status symbols, position field
StatusSamples == { <<2,6,4,2,1>>, <<2,2,3,4,2>>, <<1,2,3,4,4>>, <<7,7,3,4,4>> }
FieldPairs == { <<1,1>>, <<7,1>>, <<9,1>>, <<9,3>>, <<1,11>> }
TypeBInputs ==
    {WithSeparators(TYPE_B_HEADER \o st) \o f :
        st \in StatusSamples, f \in SeqsUpTo(FieldPairs, MaxField)}

PairInputs == {WithSeparators(q) : q \in SymbolInputs} \cup TypeBInputs

\* free status payloads, some followed by three position symbols
Payloads ==
    SeqsUpTo({1, 2, 3, 4, 5, 6, 9}, MaxPayload)
    \cup {q \o <<9,7,9>> : q \in StatusSamples}

\* free payload pair lists: up to five status pairs, then a position field
PosPairs == { <<1,1>>, <<7,1>>, <<9,1>>, <<9,0>>, <<1,11>>, <<2,3>> }
StatusPairs == << <<2,1>>, <<6,1>>, <<4,1>>, <<2,1>>, <<1,1>> >>
PayloadPairLists ==
    {Upto(StatusPairs, k) : k \in 0..4}
    \cup {StatusPairs \o f : f \in {g \in SeqsUpTo(PosPairs, MaxPos) :
                                        Len(position_bitstream(g)) <= MaxBits}}

-----------------------------------------------------------------------------
(* The components at rest *)

MsgIdle == channel = 0 /\ burst = <<>> /\ message = None
StateIdle == payload = <<>> /\ status = None
PosIdle == payload_pairs = <<>> /\ pos_info = None
ParseIdle == header = "" /\ lines = <<>> /\ parsed = None
CaptureIdle == capture = <<>> /\ analysis = None
PwmIdle == pwm_burst = <<>> /\ pwm_symbols = None /\ requantized = None
BinIdle == region_pairs = <<>> /\ binary = None
UnwrapIdle == b_vals = <<>> /\ unwrapped = None
HexIdle == hex_image = <<>> /\ hex_lines = <<>> /\ bin_data = None
SplitIdle == wire_transitions = <<>> /\ wire_bursts = None
ClassifyIdle == tone_burst = <<>> /\ burst_type = None
PairsIdle == lh_burst = <<>> /\ lh_err = <<>> /\ lh_pairs = None

msg_vars == <<channel, burst, message>>
state_vars == <<payload, status>>
pos_vars == <<payload_pairs, pos_info>>
parse_vars == <<header, lines, parsed>>
capture_vars == <<capture, analysis>>
pwm_vars == <<pwm_burst, pwm_symbols, requantized>>
bin_vars == <<region_pairs, binary>>
unwrap_vars == <<b_vals, unwrapped>>
hex_vars == <<hex_image, hex_lines, bin_data>>
split_vars == <<wire_transitions, wire_bursts>>
classify_vars == <<tone_burst, burst_type>>
pairs_vars == <<lh_burst, lh_err, lh_pairs>>

-----------------------------------------------------------------------------
(* make_message applied to one burst *)

InitMsg ==
    /\ channel \in {0, 1}
    /\ burst \in {b \in {BurstOf(q, 0, j) : q \in PairInputs, j \in Jitters} :
                        classify_burst(b) = "data"}
    /\ message = None
    /\ StateIdle /\ PosIdle /\ ParseIdle /\ CaptureIdle
    /\ PwmIdle /\ BinIdle /\ UnwrapIdle /\ HexIdle
    /\ SplitIdle /\ ClassifyIdle /\ PairsIdle

MakeMessage ==
    /\ message = None
    /\ burst # <<>>
    /\ message' = Some(make_message(burst[1][1], channel, burst))
    /\ UNCHANGED <<channel, burst, state_vars, pos_vars, parse_vars, capture_vars,
                   pwm_vars, bin_vars, unwrap_vars, hex_vars,
                   split_vars, classify_vars, pairs_vars>>

SpecMsg == InitMsg /\ [][MakeMessage]_vars

-----------------------------------------------------------------------------
(* decode_type_b_state applied to one payload *)

InitState ==
    /\ payload \in Payloads
    /\ status = None
    /\ MsgIdle /\ PosIdle /\ ParseIdle /\ CaptureIdle
    /\ PwmIdle /\ BinIdle /\ UnwrapIdle /\ HexIdle
    /\ SplitIdle /\ ClassifyIdle /\ PairsIdle

DecodeTypeBState ==
    /\ status = None
    /\ status' = Some(decode_type_b_state(payload))
    /\ UNCHANGED <<payload, msg_vars, pos_vars, parse_vars, capture_vars,
                   pwm_vars, bin_vars, unwrap_vars, hex_vars,
                   split_vars, classify_vars, pairs_vars>>

SpecState == InitState /\ [][DecodeTypeBState]_vars

-----------------------------------------------------------------------------
(* decode_type_b_position applied to one payload pair list *)

InitPos ==
    /\ payload_pairs \in PayloadPairLists
    /\ pos_info = None
    /\ MsgIdle /\ StateIdle /\ ParseIdle /\ CaptureIdle
    /\ PwmIdle /\ BinIdle /\ UnwrapIdle /\ HexIdle
    /\ SplitIdle /\ ClassifyIdle /\ PairsIdle

DecodeTypeBPosition ==
    /\ pos_info = None
    /\ pos_info' = Some(decode_type_b_position(payload_pairs))
    /\ UNCHANGED <<payload_pairs, msg_vars, state_vars, parse_vars, capture_vars,
                   pwm_vars, bin_vars, unwrap_vars, hex_vars,
                   split_vars, classify_vars, pairs_vars>>

SpecPos == InitPos /\ [][DecodeTypeBPosition]_vars

-----------------------------------------------------------------------------
(* parse_capture applied to one file *)

MaxRows == 3        \* data rows of a free capture file

Num(v) == [num |-> TRUE, val |-> v]
NotNum == [num |-> FALSE, val |-> 0]

\* the rows a file can hold at time t: well-formed rows of two and three
\* columns, an empty line, a row whose timestamp or level is not a number
RowKinds == {"00", "01", "10", "11", "t0", "t1", "empty", "bad_time", "bad_level"}
Row(kind, t) ==
    CASE kind = "00" -> <<Num(t), Num(0), Num(0)>>
      [] kind = "01" -> <<Num(t), Num(0), Num(1)>>
      [] kind = "10" -> <<Num(t), Num(1), Num(0)>>
      [] kind = "11" -> <<Num(t), Num(1), Num(1)>>
      [] kind = "t0" -> <<Num(t), Num(0)>>
      [] kind = "t1" -> <<Num(t), Num(1)>>
      [] kind = "empty" -> <<NotNum>>
      [] kind = "bad_time" -> <<NotNum, Num(0), Num(1)>>
      [] kind = "bad_level" -> <<Num(t), NotNum, Num(1)>>

\* files whose i-th row is stamped i us
Files == {[i \in 1..Len(ks) |-> Row(ks[i], i)] : ks \in SeqsUpTo(RowKinds, MaxRows)}

InitParse ==
    /\ header \in Headers
    /\ lines \in Files
    /\ parsed = None
    /\ MsgIdle /\ StateIdle /\ PosIdle /\ CaptureIdle
    /\ PwmIdle /\ BinIdle /\ UnwrapIdle /\ HexIdle
    /\ SplitIdle /\ ClassifyIdle /\ PairsIdle

ParseCapture ==
    /\ parsed = None
    /\ header # ""
    /\ parsed' = Some(parse_capture(header, lines))
    /\ UNCHANGED <<header, lines, msg_vars, state_vars, pos_vars, capture_vars,
                   pwm_vars, bin_vars, unwrap_vars, hex_vars,
                   split_vars, classify_vars, pairs_vars>>

SpecParse == InitParse /\ [][ParseCapture]_vars

-----------------------------------------------------------------------------
(* analyze_capture applied to one two-wire capture *)

MaxBursts == 2      \* bursts of a capture, over both wires

\* what a burst sends: one pulse; three unequal symbols; eleven equal pulses
BurstKinds == {"short", "data", "carrier"}
Shape(kind) ==
    CASE kind = "short" -> << <<1,0>> >>
      [] kind = "data" -> << <<1,1>>, <<7,1>>, <<3,0>> >>
      [] kind = "carrier" -> [i \in 1..11 |-> <<1,9>>]

\* the idle time before a burst: at the burst gap threshold, and just above it
Gaps == {BURST_GAP_US, BURST_GAP_US + 1}

\* wire 2 stands for both wires switching together
Descriptors == [wire : {0, 1, 2}, kind : BurstKinds, gap : Gaps]

\* the row of a transition of the burst of d: the other wire idles high
RowAt(d, tr) ==
    <<Num(tr[1]),
      Num(IF d.wire \in {0, 2} THEN tr[2] ELSE 1),
      Num(IF d.wire \in {1, 2} THEN tr[2] ELSE 1)>>

\* the rows of the bursts ds, the first starting d.gap after time t
RECURSIVE CaptureRows(_, _)
CaptureRows(ds, t) ==
    IF ds = <<>> THEN <<>>
    ELSE LET d == ds[1]
             b == BurstOf(Shape(d.kind), t + d.gap, 0)
         IN  [i \in 1..Len(b) |-> RowAt(d, b[i])] \o CaptureRows(Tail(ds), b[Len(b)][1])

\* the header line of a two-wire capture
CaptureHeader == "Time [s],Channel 0,Channel 1"

\* a capture opens with both wires idle high at time 0
Captures ==
    {<< <<Num(0), Num(1), Num(1)>> >> \o CaptureRows(ds, 0) :
        ds \in SeqsUpTo(Descriptors, MaxBursts)}

InitCapture ==
    /\ capture \in Captures
    /\ analysis = None
    /\ MsgIdle /\ StateIdle /\ PosIdle /\ ParseIdle
    /\ PwmIdle /\ BinIdle /\ UnwrapIdle /\ HexIdle
    /\ SplitIdle /\ ClassifyIdle /\ PairsIdle

AnalyzeCapture ==
    /\ analysis = None
    /\ capture # <<>>
    /\ analysis' = Some(analyze_capture(CaptureHeader, capture))
    /\ UNCHANGED <<capture, msg_vars, state_vars, pos_vars, parse_vars,
                   pwm_vars, bin_vars, unwrap_vars, hex_vars,
                   split_vars, classify_vars, pairs_vars>>

SpecCapture == InitCapture /\ [][AnalyzeCapture]_vars

-----------------------------------------------------------------------------
(* decode_pwm applied to one burst, and again to its symbols sent at the
   nominal width *)

MaxLows == 2        \* low pulses of a free burst

\* low durations, in us, around the rounding boundaries of 0, 1, 2, 8, 9 and 10
Durations == {1, 12, 13, 14, 26, 38, 39, 40, 65, 195, 208, 221, 234, 247, 260}

\* the transitions of a burst whose low pulses last durs, one unit high between
RECURSIVE BurstOfLows(_, _)
BurstOfLows(durs, t) ==
    IF durs = <<>> THEN <<>>
    ELSE << <<t, 0>>, <<t + durs[1], 1>> >>
         \o BurstOfLows(Tail(durs), t + durs[1] + PWM_UNIT_US)

InitPwm ==
    /\ pwm_burst \in {BurstOfLows(ds, 0) : ds \in SeqsUpTo(Durations, MaxLows) \ {<<>>}}
    /\ pwm_symbols = None
    /\ requantized = None
    /\ MsgIdle /\ StateIdle /\ PosIdle /\ ParseIdle /\ CaptureIdle
    /\ BinIdle /\ UnwrapIdle /\ HexIdle
    /\ SplitIdle /\ ClassifyIdle /\ PairsIdle

DecodePwm ==
    /\ pwm_burst # <<>>
    /\ pwm_symbols = None
    /\ pwm_symbols' = Some(decode_pwm(pwm_burst))
    /\ UNCHANGED <<pwm_burst, requantized, msg_vars, state_vars, pos_vars, parse_vars,
                   capture_vars, bin_vars, unwrap_vars, hex_vars,
                   split_vars, classify_vars, pairs_vars>>

\* the produced symbols sent again, each low lasting symbol * 26 us
Requantize ==
    /\ pwm_symbols # None
    /\ requantized = None
    /\ requantized' = Some(decode_pwm(BurstOfLows(
                          [i \in 1..Len(pwm_symbols[1]) |-> pwm_symbols[1][i] * PWM_UNIT_US],
                          0)))
    /\ UNCHANGED <<pwm_burst, pwm_symbols, msg_vars, state_vars, pos_vars, parse_vars,
                   capture_vars, bin_vars, unwrap_vars, hex_vars,
                   split_vars, classify_vars, pairs_vars>>

SpecPwm == InitPwm /\ [][DecodePwm \/ Requantize]_vars

-----------------------------------------------------------------------------
(* ihex_to_bin applied to the Intel HEX text of one contiguous block *)

MaxBytes == 3       \* bytes of a block

ByteValues == {0, 63, 165, 255}
BaseAddresses == {0, 240, 4660}
RecordSizes == {1, 2, 16}

\* the data records of the block: size bytes each, the last one the rest
RECURSIVE Records(_, _, _)
Records(bytes, addr, size) ==
    IF bytes = <<>> THEN <<>>
    ELSE << DataRecord(addr, Upto(bytes, size)) >>
         \o Records(From(bytes, IF size < Len(bytes) THEN size ELSE Len(bytes)),
                    addr + size, size)

Reversed(q) == [i \in 1..Len(q) |-> q[Len(q) + 1 - i]]

\* what precedes the records: nothing, a blank line, an extended-address record
Leads == {"none", "blank", "ext"}
LeadLines(lead) ==
    CASE lead = "none" -> <<>>
      [] lead = "blank" -> << <<" ", "\r">> >>
      [] lead = "ext" -> << <<":", "0", "2", "0", "0", "0", "0", "0", "4",
                              "0", "0", "0", "0", "F", "A">> >>

\* what follows the end-of-file record: nothing, or a data record that
\* rewrites the block's first address and the one below or above the block
TrailLines(after, addr, n) ==
    IF after THEN << DataRecord(IF addr > 0 THEN addr - 1 ELSE addr + n, <<238, 238>>) >>
    ELSE <<>>

HexText(bytes, addr, size, descending, lead, after) ==
    LeadLines(lead)
    \o (IF descending THEN Reversed(Records(bytes, addr, size))
                      ELSE Records(bytes, addr, size))
    \o << EofRecord \o <<"\n">> >>
    \o TrailLines(after, addr, Len(bytes))

InitHex ==
    /\ hex_image \in SeqsUpTo(ByteValues, MaxBytes)
    /\ \E addr \in BaseAddresses, size \in RecordSizes, descending \in BOOLEAN,
          lead \in Leads, after \in BOOLEAN :
            hex_lines = HexText(hex_image, addr, size, descending, lead, after)
    /\ bin_data = None
    /\ MsgIdle /\ StateIdle /\ PosIdle /\ ParseIdle /\ CaptureIdle
    /\ PwmIdle /\ BinIdle /\ UnwrapIdle
    /\ SplitIdle /\ ClassifyIdle /\ PairsIdle

IhexToBin ==
    /\ hex_lines # <<>>
    /\ bin_data = None
    /\ bin_data' = Some(ihex_to_bin(hex_lines))
    /\ UNCHANGED <<hex_image, hex_lines, msg_vars, state_vars, pos_vars, parse_vars,
                   capture_vars, pwm_vars, bin_vars, unwrap_vars,
                   split_vars, classify_vars, pairs_vars>>

SpecHex == InitHex /\ [][IhexToBin]_vars

-----------------------------------------------------------------------------
(* Properties of the Intel HEX reader (SpecHex) *)

\* index of the end-of-file record among the lines
EofIndex == CHOOSE i \in 1..Len(hex_lines) : strip(hex_lines[i]) = EofRecord

\* C15: for a byte string written as data records at consecutive addresses
\* and closed by an end-of-file record, ihex_to_bin returns that byte string,
\* in ascending address order whatever the order of the records; a record
\* after the end-of-file record changes nothing.
C15_IhexRoundTrip ==
    bin_data # None => bin_data[1] = hex_image

\* three bytes in records of one byte, written from the highest address down,
\* and a data record after the end-of-file record
C15_Witness ==
    /\ bin_data = Some(<<0, 255, 165>>)
    /\ hex_image = <<0, 255, 165>>
    /\ EofIndex = 4
    /\ Len(hex_lines) = 5
    /\ hex_lines[1] = DataRecord(242, <<165>>)
    /\ hex_lines[5] = DataRecord(239, <<238, 238>>)

-----------------------------------------------------------------------------
(* decode_position_binary applied to the pairs of one region *)

MaxPairs == 3       \* pairs of a free region

\* pairs with H below, at and above the crosstalk threshold, and without L
RegionPairs == { <<1,0>>, <<2,1>>, <<0,2>>, <<1,10>>, <<1,11>>, <<3,12>> }

InitBin ==
    /\ region_pairs \in {g \in SeqsUpTo(RegionPairs, MaxPairs) \ {<<>>} :
                            Len(position_bitstream(g)) <= MaxBits}
    /\ binary = None
    /\ MsgIdle /\ StateIdle /\ PosIdle /\ ParseIdle /\ CaptureIdle
    /\ PwmIdle /\ UnwrapIdle /\ HexIdle
    /\ SplitIdle /\ ClassifyIdle /\ PairsIdle

DecodePositionBinary ==
    /\ region_pairs # <<>>
    /\ binary = None
    /\ binary' = Some(decode_position_binary(region_pairs))
    /\ UNCHANGED <<region_pairs, msg_vars, state_vars, pos_vars, parse_vars,
                   capture_vars, pwm_vars, unwrap_vars, hex_vars,
                   split_vars, classify_vars, pairs_vars>>

SpecBin == InitBin /\ [][DecodePositionBinary]_vars

-----------------------------------------------------------------------------
(* Properties of the binary reconstruction (SpecBin) *)

\* the pairs that are not discarded: H at most 10
KeptPairs == SelectSeq(region_pairs, LAMBDA p : p[2] <= 10)

\* the number of bits the kept pairs before the k-th contribute
BitsBefore(k) == SeqSum([j \in 1..(k - 1) |-> KeptPairs[j][1] + KeptPairs[j][2]])
BitCount == BitsBefore(Len(KeptPairs) + 1)

\* bit n, counted from 0: one inside the L ones of a kept pair, zero in its H zeros
BitAt(n) ==
    IF \E k \in 1..Len(KeptPairs) :
            n >= BitsBefore(k) /\ n < BitsBefore(k) + KeptPairs[k][1]
    THEN 1 ELSE 0

\* the bits below n read least-significant-bit first: bit i weighs 2^i
RECURSIVE ValueBelow(_)
ValueBelow(n) == IF n = 0 THEN 0 ELSE ValueBelow(n - 1) + BitAt(n - 1) * 2^(n - 1)

\* C19 as stated: for every region the result is the value of the bitstream
\* of the kept pairs, read least-significant-bit first, with its bit count.
C19_LsbFirstValue ==
    binary # None =>
        /\ binary[1].value = Some(ValueBelow(BitCount))
        /\ binary[1].num_bits = BitCount

\* C19, amended: exactly the pairs with H > 10 are discarded (H = 10 is
\* kept); when the kept pairs contribute a bit the result is the value of
\* their bitstream, L ones then H zeros per pair, read least-significant-bit
\* first, with its bit count; when they contribute none it is (None, 0).
C19_LsbFirstValueOrNone ==
    binary # None =>
        IF BitCount > 0
        THEN /\ binary[1].value = Some(ValueBelow(BitCount))
             /\ binary[1].num_bits = BitCount
        ELSE /\ binary[1].value = None
             /\ binary[1].num_bits = 0

\* a pair with H = 10 kept, a pair with H = 11 discarded, a pair behind them
C19_Witness ==
    /\ region_pairs = << <<1,10>>, <<1,11>>, <<2,1>> >>
    /\ binary # None
    /\ binary[1].value = Some(6145)
    /\ binary[1].num_bits = 14

-----------------------------------------------------------------------------
(* find_bursts applied to the transition list of one wire *)

MaxGaps == 4        \* gaps between the transitions of a free list

\* the time between two transitions: short, at the threshold, just above it
GapSet == {1, BURST_GAP_US, BURST_GAP_US + 1}

\* the list that starts at time 0 with level lvl, alternates, and waits gs[i]
\* between its i-th and its next transition
RECURSIVE TimeAfter(_, _)
TimeAfter(gs, n) == IF n = 0 THEN 0 ELSE TimeAfter(gs, n - 1) + gs[n]
TransitionsOf(gs, lvl) ==
    [i \in 1..(Len(gs) + 1) |-> <<TimeAfter(gs, i - 1), (lvl + i - 1) % 2>>]

InitSplit ==
    /\ wire_transitions \in
          {<<>>} \cup {TransitionsOf(gs, lvl) : gs \in SeqsUpTo(GapSet, MaxGaps), lvl \in {0, 1}}
    /\ wire_bursts = None
    /\ MsgIdle /\ StateIdle /\ PosIdle /\ ParseIdle /\ CaptureIdle
    /\ PwmIdle /\ BinIdle /\ UnwrapIdle /\ HexIdle
    /\ ClassifyIdle /\ PairsIdle

FindBursts ==
    /\ wire_bursts = None
    /\ wire_bursts' = Some(find_bursts(wire_transitions))
    /\ UNCHANGED <<wire_transitions, msg_vars, state_vars, pos_vars, parse_vars,
                   capture_vars, pwm_vars, bin_vars, unwrap_vars, hex_vars,
                   classify_vars, pairs_vars>>

SpecSplit == InitSplit /\ [][FindBursts]_vars

-----------------------------------------------------------------------------
(* Properties of the burst segmenter (SpecSplit) *)

RECURSIVE Flatten(_)
Flatten(bs) == IF bs = <<>> THEN <<>> ELSE bs[1] \o Flatten(Tail(bs))

\* the bursts are non-empty, closed by gaps of more than 10 ms and free of them
WellCut(bs) ==
    /\ \A k \in 1..Len(bs) : bs[k] # <<>>
    /\ \A k \in 1..Len(bs) : \A i \in 1..(Len(bs[k]) - 1) :
          bs[k][i+1][1] - bs[k][i][1] <= 10000
    /\ \A k \in 1..(Len(bs) - 1) :
          bs[k+1][1][1] - bs[k][Len(bs[k])][1] > 10000

\* C21 as stated: for every ordered transition list the bursts are non-empty,
\* their concatenation is the list, gaps inside a burst are at most 10 ms and
\* the gap between two bursts exceeds 10 ms.
C21_BurstsPartitionInput ==
    wire_bursts # None =>
        /\ WellCut(wire_bursts[1])
        /\ Flatten(wire_bursts[1]) = wire_transitions

\* C21, amended: the same for every list of at least two transitions; a list
\* of fewer than two transitions yields no burst at all.
C21_BurstsPartitionLongInput ==
    wire_bursts # None =>
        IF Len(wire_transitions) < 2
        THEN wire_bursts[1] = <<>>
        ELSE /\ WellCut(wire_bursts[1])
             /\ Flatten(wire_bursts[1]) = wire_transitions

\* a gap at the threshold inside the first burst, a longer gap before the second
C21_Witness ==
    /\ wire_bursts # None
    /\ Len(wire_transitions) = 4
    /\ Len(wire_bursts[1]) = 2
    /\ Len(wire_bursts[1][1]) = 3
    /\ wire_bursts[1][1][3][1] - wire_bursts[1][1][2][1] = 10000
    /\ wire_bursts[1][2][1][1] - wire_bursts[1][1][3][1] = 10001

-----------------------------------------------------------------------------
(* classify_burst applied to one burst *)

MaxEdges == 22      \* transitions of a free burst

\* how much longer than the others the last low pulse is, in us
Spreads == {0, 50, 51}

\* a burst of n alternating transitions from level lvl: every segment lasts
\* one unit, the last low segment one unit and spread
EdgeBurst(n, lvl, spread) ==
    LET level(i) == (lvl + i - 1) % 2
        lows == {i \in 1..(n - 1) : level(i) = 0}
        gs == [i \in 1..(n - 1) |->
                 IF i \in lows /\ \A k \in lows : k <= i
                 THEN PWM_UNIT_US + spread ELSE PWM_UNIT_US]
    IN  TransitionsOf(gs, lvl)

InitClassify ==
    /\ tone_burst \in {EdgeBurst(n, lvl, spread) :
                          n \in 1..MaxEdges, lvl \in {0, 1}, spread \in Spreads}
    /\ burst_type = None
    /\ MsgIdle /\ StateIdle /\ PosIdle /\ ParseIdle /\ CaptureIdle
    /\ PwmIdle /\ BinIdle /\ UnwrapIdle /\ HexIdle
    /\ SplitIdle /\ PairsIdle

ClassifyBurst ==
    /\ tone_burst # <<>>
    /\ burst_type = None
    /\ burst_type' = Some(classify_burst(tone_burst))
    /\ UNCHANGED <<tone_burst, msg_vars, state_vars, pos_vars, parse_vars,
                   capture_vars, pwm_vars, bin_vars, unwrap_vars, hex_vars,
                   split_vars, pairs_vars>>

SpecClassify == InitClassify /\ [][ClassifyBurst]_vars

-----------------------------------------------------------------------------
(* Properties of the burst classifier (SpecClassify) *)

\* the durations of the low segments of the burst differ by at most 50 us
UniformLows(b) ==
    \A i, j \in {k \in 1..(Len(b) - 1) : b[k][2] = 0} :
        (b[i+1][1] - b[i][1]) - (b[j+1][1] - b[j][1]) <= 50

\* C22: a burst of fewer than 5 transitions is short; one of at least 5 is a
\* carrier exactly when it has more than 20 transitions and its low durations
\* spread by at most 50 us, and data otherwise.
C22_BurstType ==
    burst_type # None =>
        IF Len(tone_burst) < 5 THEN burst_type = Some("short")
        ELSE IF Len(tone_burst) > 20 /\ UniformLows(tone_burst)
             THEN burst_type = Some("carrier")
             ELSE burst_type = Some("data")

\* exactly 20 transitions with uniform lows: data, not a carrier
C22_Witness ==
    /\ Len(tone_burst) = 20
    /\ UniformLows(tone_burst)
    /\ burst_type = Some("data")

-----------------------------------------------------------------------------
(* burst_to_lh_pairs applied to one burst of whole-microsecond durations *)

MaxSegs == 3        \* segments of a free burst
SegDurs == {12, 13, 26, 39, 117}
FpErrors == {-1, 0, 1}

InitPairs ==
    /\ \E n \in 0..MaxSegs :
          /\ lh_burst \in {TransitionsOf(gs, lvl) : gs \in [1..n -> SegDurs], lvl \in {0, 1}}
          /\ lh_err \in [1..n -> FpErrors]
    /\ lh_pairs = None
    /\ MsgIdle /\ StateIdle /\ PosIdle /\ ParseIdle /\ CaptureIdle
    /\ PwmIdle /\ BinIdle /\ UnwrapIdle /\ HexIdle
    /\ SplitIdle /\ ClassifyIdle

BurstToLhPairs ==
    /\ lh_pairs = None
    /\ lh_burst # <<>>
    /\ lh_pairs' = Some(burst_to_lh_pairs_fp(lh_burst, lh_err))
    /\ UNCHANGED <<lh_burst, lh_err, msg_vars, state_vars, pos_vars, parse_vars,
                   capture_vars, pwm_vars, bin_vars, unwrap_vars, hex_vars,
                   split_vars, classify_vars>>

SpecPairs == InitPairs /\ [][BurstToLhPairs]_vars

-----------------------------------------------------------------------------
(* Properties of the pair quantizer (SpecPairs) *)

\* the 1-based indices of the low segments of a burst, in order
LowSegs(b) == {i \in 1..(Len(b) - 1) : b[i][2] = 0}
NthLowSeg(b, k) == CHOOSE i \in LowSegs(b) : Cardinality({m \in LowSegs(b) : m <= i}) = k

\* C27: for a burst of alternating levels and whole-microsecond durations,
\* burst_to_lh_pairs returns one pair per low segment, in order, whose H is
\* the quantized following high segment or 0 when there is none, and the L
\* values of the pairs are the symbols of decode_pwm, element for element.
C27_PairsMatchSymbols ==
    lh_pairs # None =>
        LET P == lh_pairs[1]
            n == Len(lh_burst) - 1
        IN  /\ Len(P) = Cardinality(LowSegs(lh_burst))
            /\ \A k \in 1..Len(P) :
                  LET i == NthLowSeg(lh_burst, k)
                  IN  P[k][2] = IF i + 1 <= n
                                THEN RoundDivFp(lh_burst[i+2][1] - lh_burst[i+1][1],
                                                PWM_UNIT_US, lh_err[i+1])
                                ELSE 0
            /\ [k \in 1..Len(P) |-> P[k][1]] = decode_pwm(lh_burst)

-----------------------------------------------------------------------------
(* Properties of the symbol quantizer (SpecPwm) *)

\* the low durations of the burst, in order
LowDurations(b) == [i \in 1..(Len(b) \div 2) |-> b[2 * i][1] - b[2 * i - 1][1]]

Abs(x) == IF x < 0 THEN -x ELSE x

\* q is the integer nearest to d / 26, the even one of the two when d is midway
IsRounded(d, q) ==
    /\ 2 * Abs(d - q * PWM_UNIT_US) <= PWM_UNIT_US
    /\ 2 * Abs(d - q * PWM_UNIT_US) = PWM_UNIT_US => q % 2 = 0

\* C11: decode_pwm gives one symbol per low pulse, the integer nearest to
\* d / 26 (ties to even) whatever its value, 0 and 8 included, with nothing
\* clamped into the alphabet; and the symbols sent again at symbol * 26 us
\* quantize to the same symbols.
C11_PureRounding ==
    /\ pwm_symbols # None =>
          /\ Len(pwm_symbols[1]) = Len(LowDurations(pwm_burst))
          /\ \A i \in 1..Len(pwm_symbols[1]) :
                IsRounded(LowDurations(pwm_burst)[i], pwm_symbols[1][i])
    /\ requantized # None => requantized = pwm_symbols

\* lows of 12 us and 208 us gave the symbols 0 and 8, and were sent again
C11_Witness ==
    /\ pwm_symbols = Some(<<0, 8>>)
    /\ LowDurations(pwm_burst) = <<12, 208>>
    /\ requantized = Some(<<0, 8>>)

-----------------------------------------------------------------------------
(* unwrap_positions applied to the region-B values of one capture *)

MaxVals == 3        \* messages of a capture

\* counter values: the ends of the range, and values a wrap threshold apart
BValues == {0, 1, 200, 255, 256, 257, 300, 511}

InitUnwrap ==
    /\ b_vals \in SeqsUpTo(BValues, MaxVals) \ {<<>>}
    /\ unwrapped = None
    /\ MsgIdle /\ StateIdle /\ PosIdle /\ ParseIdle /\ CaptureIdle
    /\ PwmIdle /\ BinIdle /\ HexIdle
    /\ SplitIdle /\ ClassifyIdle /\ PairsIdle

UnwrapPositions ==
    /\ b_vals # <<>>
    /\ unwrapped = None
    /\ unwrapped' = Some(unwrap_positions(b_vals))
    /\ UNCHANGED <<b_vals, msg_vars, state_vars, pos_vars, parse_vars, capture_vars,
                   pwm_vars, bin_vars, hex_vars,
                   split_vars, classify_vars, pairs_vars>>

SpecUnwrap == InitUnwrap /\ [][UnwrapPositions]_vars

-----------------------------------------------------------------------------
(* Properties of position unwrapping (SpecUnwrap) *)

\* the values of a mod-512 counter that advances (Opening) or falls back
\* (Closing) by at most 255 between consecutive messages
Opening(vals) == \A i \in 1..(Len(vals) - 1) : (vals[i+1] - vals[i]) % 512 <= 255
Closing(vals) == \A i \in 1..(Len(vals) - 1) : (vals[i] - vals[i+1]) % 512 <= 255

\* the entries of u that hold a value, in order
Defined(u) == SelectSeq(u, LAMBDA x : x # None)

\* C12 as stated: the values returned for an opening travel never decrease,
\* those returned for a closing travel never increase.
C12_UnwrappedMonotonic ==
    unwrapped # None =>
        LET u == Defined(unwrapped[1])
        IN  /\ Opening(b_vals) => \A i \in 1..(Len(u) - 1) : u[i][1] <= u[i+1][1]
            /\ Closing(b_vals) => \A i \in 1..(Len(u) - 1) : u[i][1] >= u[i+1][1]

\* the running offset the claim describes, after the i-th value
ClaimedOffset(vals, i) ==
    512 * Cardinality({k \in 2..i : vals[k] - vals[k-1] < -256})
    - 512 * Cardinality({k \in 2..i : vals[k] - vals[k-1] > 256})

\* C20 as stated: the offset starts at 0, gains 512 at a drop of more than
\* 256 from the previous B-value, loses 512 at a rise of more than 256, stays
\* at a jump of at most 256; each output is the B-value plus the offset.
C20_RunningOffset ==
    unwrapped # None =>
        /\ Len(unwrapped[1]) = Len(b_vals)
        /\ \A i \in 1..Len(b_vals) :
              unwrapped[1][i] = Some(b_vals[i] + ClaimedOffset(b_vals, i))

\* the indices of the values that carry a position, and for such an index
\* the one before it, 0 when it is the first
NonZero(vals) == {i \in 1..Len(vals) : vals[i] # 0}
PrevNonZero(vals, i) ==
    LET before == {k \in NonZero(vals) : k < i}
    IN  IF before = {} THEN 0 ELSE CHOOSE k \in before : \A m \in before : m <= k

\* C29: the result has the length of the input; a B-value of 0 yields None
\* and is not taken as the previous value: each other value is compared with
\* the last value that was not 0; every other output is congruent to its
\* B-value modulo 512, and two consecutive outputs that are not None differ
\* by at most 256.
C29_UnwrapShape ==
    unwrapped # None =>
        LET u == unwrapped[1]
        IN  /\ Len(u) = Len(b_vals)
            /\ \A i \in 1..Len(b_vals) :
                  IF b_vals[i] = 0 THEN u[i] = None
                  ELSE /\ u[i] # None
                       /\ (u[i][1] - b_vals[i]) % 512 = 0
                       /\ LET p == PrevNonZero(b_vals, i)
                          IN  IF p = 0 THEN u[i][1] = b_vals[i]
                              ELSE /\ Abs(u[i][1] - u[p][1]) <= 256
                                   /\ u[i][1] - u[p][1] =
                                        (b_vals[i] - b_vals[p])
                                        + (IF b_vals[i] - b_vals[p] < -256 THEN 512
                                           ELSE IF b_vals[i] - b_vals[p] > 256 THEN -512
                                           ELSE 0)

\* a wrap seen across a value of 0
C29_Witness ==
    /\ b_vals = <<511, 0, 1>>
    /\ unwrapped = Some(<<Some(511), None, Some(513)>>)

-----------------------------------------------------------------------------
(* Properties of the message classifier (SpecMsg) *)

ExactCatalog(ch) == IF ch = 0 THEN CH0_COMMANDS ELSE CH1_RESPONSES
PrefixCatalog(ch) == IF ch = 0 THEN CH0_PREFIXES ELSE CH1_PREFIXES

\* C1: a symbol sequence that is a key of its wire's exact-match catalog gets
\* that entry's name and description and a header as long as the whole
\* sequence, also when an entry of the wire's prefix list starts the sequence.
C1_ExactMatchWins ==
    message # None =>
        LET m == message[1]
            table == ExactCatalog(m.channel)
        IN  \A i \in 1..Len(table) :
                table[i][1] = m.symbols =>
                    /\ m.name = table[i][2]
                    /\ m.description = table[i][3]
                    /\ Len(m.header) = Len(m.symbols)
                    /\ m.header = m.symbols
                    /\ m.payload = <<>>

\* CMD-A, which the prefix entry CMD-? also starts, classified on wire 0
C1_Witness ==
    /\ message # None
    /\ message[1].channel = 0
    /\ message[1].symbols = <<1,7,1,1,5,1,4,2,9,2,3,2,4,2,1>>
    /\ IsPrefixOf(<<1,7,1,1,5>>, message[1].symbols)
    /\ message[1].name = "CMD-A"

NoCatalogMatch(ch, symbols) ==
    /\ \A i \in 1..Len(ExactCatalog(ch)) : ExactCatalog(ch)[i][1] # symbols
    /\ \A i \in 1..Len(PrefixCatalog(ch)) : ~IsPrefixOf(PrefixCatalog(ch)[i][1], symbols)

\* C2: a symbol sequence that matches no exact and no prefix pattern of its
\* wire yields a Message of category UNKNOWN with an empty header whose payload
\* and raw symbol list are both the whole quantized sequence of the burst.
C2_UnknownKeepsSymbols ==
    message # None =>
        LET m == message[1]
        IN  NoCatalogMatch(m.channel, decode_pwm(burst)) =>
                /\ m.category = "UNKNOWN"
                /\ m.header = <<>>
                /\ m.payload = decode_pwm(burst)
                /\ m.symbols = decode_pwm(burst)

\* an unmatched burst of three symbols on wire 1
C2_Witness ==
    /\ message # None
    /\ message[1].channel = 1
    /\ NoCatalogMatch(1, decode_pwm(burst))
    /\ message[1].name = "CH1-UNKNOWN"
    /\ message[1].payload = <<7,5,1>>

\* the rows of a wire that carry names: exact-match catalog, then prefix list
NamedRows(ch) == ExactCatalog(ch) \o PrefixCatalog(ch)
UnknownNames == {"CH0-UNKNOWN", "CH1-UNKNOWN"}

\* C13: the header of a Message is fixed by its wire and name: the catalog
\* pattern that carries the name (the full pattern of an exact-match name, the
\* prefix of a prefix-match name), the empty list for an unknown name; no name
\* is carried by two patterns of a wire, so two Messages of one wire and name
\* have the same header whatever their payloads.
C13_HeaderFixedPerName ==
    message # None =>
        LET m == message[1]
            rows == NamedRows(m.channel)
        IN  /\ \A i, j \in 1..Len(rows) : rows[i][2] = rows[j][2] => i = j
            /\ \A i \in 1..Len(rows) : rows[i][2] = m.name => m.header = rows[i][1]
            /\ m.name \in UnknownNames => m.header = <<>>
            /\ m.name \in UnknownNames \/ \E i \in 1..Len(rows) : rows[i][2] = m.name

\* CMD-B on wire 0 with a payload of two symbols
C13_Witness ==
    /\ message # None
    /\ message[1].channel = 0
    /\ message[1].name = "CMD-B"
    /\ message[1].header = <<1,7,3,4>>
    /\ message[1].payload = <<1,9>>

CatalogCategories == {"COMMAND", "ACK", "STATUS", "FULL_STATUS", "BEACON", "ECHO", "HANDSHAKE"}

\* C14 as stated: the category is UNKNOWN exactly when the symbols match no
\* exact and no prefix pattern of the wire; a sequence that matches gets one of
\* the seven catalog categories; an UNKNOWN classification has an empty header.
C14_UnknownIffNoMatch ==
    message # None =>
        LET m == message[1]
        IN  /\ m.category = "UNKNOWN" <=> NoCatalogMatch(m.channel, m.symbols)
            /\ ~NoCatalogMatch(m.channel, m.symbols) => m.category \in CatalogCategories
            /\ m.category = "UNKNOWN" => m.header = <<>>

\* p starts s, element by element
StartsWith(p, s) == Len(p) <= Len(s) /\ \A k \in 1..Len(p) : s[k] = p[k]

\* C16: when no exact pattern is the symbol sequence, the first entry of the
\* wire's prefix list, in listed order, that starts the sequence gives the
\* name; the header is that prefix and the payload the symbols after it.
C16_FirstPrefixInOrder ==
    message # None =>
        LET m == message[1]
            ex == ExactCatalog(m.channel)
            pre == PrefixCatalog(m.channel)
        IN  (\A e \in 1..Len(ex) : ex[e][1] # m.symbols) =>
                \A i \in 1..Len(pre) :
                    (/\ StartsWith(pre[i][1], m.symbols)
                     /\ \A j \in 1..(i - 1) : ~StartsWith(pre[j][1], m.symbols)) =>
                        /\ m.name = pre[i][2]
                        /\ m.description = pre[i][3]
                        /\ m.header = pre[i][1]
                        /\ m.header \o m.payload = m.symbols

\* a sequence that both CMD-B-INIT and CMD-B start, on wire 0
C16_Witness ==
    /\ message # None
    /\ message[1].channel = 0
    /\ message[1].symbols = <<1,7,3,4,1,4,1,9,9,1>>
    /\ StartsWith(<<1,7,3,4>>, message[1].symbols)
    /\ message[1].name = "CMD-B-INIT"
    /\ message[1].payload = <<9,1>>

\* C26: a message carries a status only if it is on wire 1, is named TYPE-B,
\* starts with the 8 symbols of TYPE_B_HEADER and has more than 8 symbols, and
\* every such message carries one; a wire-0 message never carries one, even
\* when it starts with that header. The status is part of the message when
\* make_message returns it, and the message does not change afterwards.
C26_StatusOnlyOnTypeB ==
    /\ [](message # None =>
            /\ (message[1].state # None) <=>
                    (message[1].name = "TYPE-B" /\ Len(message[1].symbols) > TYPE_B_HEADER_LEN)
            /\ message[1].state # None =>
                    /\ channel = 1
                    /\ Upto(message[1].symbols, TYPE_B_HEADER_LEN) = TYPE_B_HEADER
            /\ channel = 0 => message[1].state = None)
    /\ [][message # None => message' = message]_vars

\* a status message on wire 1 with its status attached
C26_Witness ==
    /\ message # None
    /\ channel = 1
    /\ message[1].symbols = TYPE_B_HEADER \o <<2,6,4,2,1>>
    /\ message[1].state # None
    /\ message[1].state[1].door = Some("IDLE_CLOSED")

\* the classification of a symbol sequence on a wire
Classified(ch, symbols) == IF ch = 0 THEN classify_ch0(symbols) ELSE classify_ch1(symbols)

\* C30: in the prefix list of each wire no entry is an element-wise prefix of
\* an entry listed after it, and no entry is shadowed: for every entry some
\* sequence (the entry's key followed by a tail) is classified as that entry,
\* with the key as its header. Stated of the list of the wire of each message.
C30_NoPrefixShadowed ==
    message # None =>
        LET ch == message[1].channel
            pre == PrefixCatalog(ch)
        IN  /\ \A i \in 1..Len(pre) : \A j \in (i + 1)..Len(pre) :
                  ~StartsWith(pre[i][1], pre[j][1])
            /\ \A i \in 1..Len(pre) :
                  \E t \in SeqsUpTo({1, 9}, MaxTail) :
                      /\ Classified(ch, pre[i][1] \o t).name = pre[i][2]
                      /\ Classified(ch, pre[i][1] \o t).header_len = Len(pre[i][1])

\* a message of the shorter entry CMD-B, whose key starts the key of the
\* entry CMD-B-INIT listed before it
C30_Witness ==
    /\ message # None
    /\ channel = 0
    /\ message[1].symbols = <<1,7,3,4,9>>
    /\ StartsWith(CH0_PREFIXES[2][1], CH0_PREFIXES[1][1])
    /\ message[1].name = CH0_PREFIXES[2][2]
    /\ message[1].header = CH0_PREFIXES[2][1]

-----------------------------------------------------------------------------
(* Properties of the status payload decoder (SpecState) *)

DoorKeyIndex(p) == CHOOSE i \in 1..Len(DOOR_STATE_MAP) : DOOR_STATE_MAP[i][1] = <<p[1], p[2]>>
InDoorTable(p) == \E i \in 1..Len(DOOR_STATE_MAP) : DOOR_STATE_MAP[i][1] = <<p[1], p[2]>>

\* C3: for a payload of at least two symbols the door tag is the table's tag of
\* (payload[0], payload[1]) when the pair is a key of DOOR_STATE_MAP, the
\* light-on refinement of ARRIVED_CLOSED to IDLE_CLOSED apart, and the tag
\* UNKNOWN(v0,v1) holding the two values when it is not.
C3_DoorTag ==
    (status # None /\ Len(payload) >= 2) =>
        LET st == status[1]
        IN  IF InDoorTable(payload)
            THEN \/ st.door = Some(DOOR_STATE_MAP[DoorKeyIndex(payload)][2])
                 \/ /\ DOOR_STATE_MAP[DoorKeyIndex(payload)][2] = "ARRIVED_CLOSED"
                    /\ st.light = Some("ON")
                    /\ st.door = Some("IDLE_CLOSED")
            ELSE st.door = <<"UNKNOWN(", payload[1], ",", payload[2], ")">>

\* a table pair decoded, and the payload goes on
C3_Witness ==
    /\ status # None
    /\ Len(payload) >= 5
    /\ <<payload[1], payload[2]>> = <<5, 3>>
    /\ status[1].door = Some("ARRIVED_OPEN")

\* C4 as stated: every payload, also one of 0 or 1 symbols, gets a door tag
\* that is not absent.
C4_DoorNeverAbsent ==
    status # None => status[1].door # None

\* the tag the door table gives for the first two symbols, None when it has none
TableTag == IF InDoorTable(payload) THEN Some(DOOR_STATE_MAP[DoorKeyIndex(payload)][2]) ELSE None

\* C24: the light is looked up only for a payload of at least 5 symbols whose
\* door lookup gave IDLE_CLOSED, ARRIVED_CLOSED or nothing: OFF for
\* payload[1..4] = (6,4,2,1), ON for (2,3,4,2), absent for anything else; for
\* every other door state of the table, and for shorter payloads, it is absent.
C24_LightOnlyWhenClosedOrUnknown ==
    status # None =>
        status[1].light =
            IF Len(payload) >= 5 /\ TableTag \in {Some("IDLE_CLOSED"), Some("ARRIVED_CLOSED"), None}
            THEN IF <<payload[2], payload[3], payload[4], payload[5]>> = <<6,4,2,1>>
                 THEN Some("OFF")
                 ELSE IF <<payload[2], payload[3], payload[4], payload[5]>> = <<2,3,4,2>>
                 THEN Some("ON")
                 ELSE None
            ELSE None

\* an unknown door with the light off
C24_Witness ==
    /\ status # None
    /\ payload = <<3,6,4,2,1>>
    /\ TableTag = None
    /\ status[1].light = Some("OFF")

\* C25: with the light ON, the sub-state SETTLED and the door lookup giving
\* ARRIVED_CLOSED, the door tag is IDLE_CLOSED with the description
\* "Door closed (idle), light on"; in every other case the door tag is what
\* the door lookup gave, the table tag or the UNKNOWN tag.
C25_RefinedOnlyWhenLightOnSettled ==
    (status # None /\ Len(payload) >= 2) =>
        IF /\ status[1].light = Some("ON")
           /\ status[1].sub_state = Some("SETTLED")
           /\ TableTag = Some("ARRIVED_CLOSED")
        THEN /\ status[1].door = Some("IDLE_CLOSED")
             /\ status[1].door_desc = Some("Door closed (idle), light on")
        ELSE status[1].door =
                IF TableTag # None THEN TableTag
                ELSE <<"UNKNOWN(", payload[1], ",", payload[2], ")">>

\* arrived closed, settled, light on: refined
C25_Witness ==
    /\ status # None
    /\ payload = <<2,2,3,4,2>>
    /\ status[1].sub_state = Some("SETTLED")
    /\ status[1].door = Some("IDLE_CLOSED")
    /\ status[1].door_desc = Some("Door closed (idle), light on")

\* C28: in no result is the light ON while the door tag is ARRIVED_CLOSED.
C28_LightOnNeverArrivedClosed ==
    status # None =>
        ~(status[1].light = Some("ON") /\ status[1].door = Some("ARRIVED_CLOSED"))

\* the door lookup gave ARRIVED_CLOSED, the light is ON, the tag is refined
C28_Witness ==
    /\ status # None
    /\ payload = <<2,2,3,4,2,9,7,9>>
    /\ TableTag = Some("ARRIVED_CLOSED")
    /\ status[1].light = Some("ON")
    /\ status[1].door = Some("IDLE_CLOSED")

-----------------------------------------------------------------------------
(* Properties of the position counter decoder (SpecPos) *)

\* The position field of the call, and its regions as section 4.5 of the
\* specification cuts them: A between the prefix and the first delimiter,
\* B after the delimiter's two pairs.
Field == From(payload_pairs, 5)
FieldL(i) == Field[i + 1][1]
PrefixLen ==
    IF Len(Field) >= 2 /\ FieldL(0) = 1 /\ FieldL(1) = 7 THEN 2
    ELSE IF Len(Field) >= 1 /\ FieldL(0) = 9 THEN 1
    ELSE 0
IsDelimiterAt(i) == FieldL(i) \in {7, 9} /\ FieldL(i + 1) = 9
DelimiterFound == \E i \in PrefixLen..(Len(Field) - 2) : IsDelimiterAt(i)
DelimiterAt ==
    CHOOSE i \in PrefixLen..(Len(Field) - 2) :
        IsDelimiterAt(i) /\ \A k \in PrefixLen..(i - 1) : ~IsDelimiterAt(k)
RegionA == Slice(Field, PrefixLen, DelimiterAt)
RegionB == From(Field, DelimiterAt + 2)

\* no pair of the region adds a bit: each is filtered as crosstalk or is empty
NoBits(region) ==
    \A i \in 1..Len(region) :
        region[i][2] > CROSSTALK_THRESH \/ (region[i][1] = 0 /\ region[i][2] = 0)

\* C5 as stated: with a delimiter found, a region that contributes no bit is
\* reported with value 0.
C5_NoBitsIsZero ==
    (pos_info # None /\ Len(payload_pairs) > 5 /\ DelimiterFound) =>
        /\ NoBits(RegionA) => pos_info[1].position_a = Some(0)
        /\ NoBits(RegionB) => pos_info[1].position = Some(0)

\* C5, amended: with a delimiter found, a region that contributes no bit is
\* reported as undefined (None, and for region B a bit count of 0); the
\* delimiter is reported all the same.
C5_NoBitsIsNone ==
    (pos_info # None /\ Len(payload_pairs) > 5 /\ DelimiterFound) =>
        /\ pos_info[1].position_delimiter # None
        /\ NoBits(RegionA) => pos_info[1].position_a = None
        /\ NoBits(RegionB) => /\ pos_info[1].position = None
                              /\ pos_info[1].position_bits = 0

\* region A is empty and every pair of region B is filtered as crosstalk
C5_Witness ==
    /\ pos_info # None
    /\ Len(payload_pairs) > 5
    /\ DelimiterFound
    /\ RegionA = <<>>
    /\ RegionB # <<>> /\ NoBits(RegionB)
    /\ pos_info[1].position = None
    /\ pos_info[1].position_a = None
    /\ pos_info[1].position_delimiter = Some("9,9")

\* C6 as stated: a defined position is a 9-bit value, whatever the number of
\* bits region B contributes.
C6_PositionIsNineBits ==
    (pos_info # None /\ pos_info[1].position # None) =>
        pos_info[1].position[1] \in 0..511

\* C17 as stated: the prefix is "1,7" when the field's L-values start 1,7,
\* "9" when they start 9, and undefined otherwise; with an undefined prefix
\* decoding stops, so position, position_a and the delimiter stay undefined.
C17_NoPrefixStops ==
    (pos_info # None /\ Len(payload_pairs) > 5) =>
        /\ PrefixLen = 2 => pos_info[1].position_prefix = Some("1,7")
        /\ PrefixLen = 1 => pos_info[1].position_prefix = Some("9")
        /\ PrefixLen = 0 =>
              /\ pos_info[1].position_prefix = None
              /\ pos_info[1].position_delimiter = None
              /\ pos_info[1].position = None
              /\ pos_info[1].position_a = None

\* C18: the delimiter is the first adjacent pair (7,9) or (9,9) of L-values
\* at or after the first index behind the prefix: its type is reported,
\* region A is what lies between the prefix and that index, region B what
\* follows its two pairs; without such a pair the delimiter, position and
\* position_a are undefined.
C18_FirstDelimiterAfterPrefix ==
    (pos_info # None /\ Len(payload_pairs) > 5) =>
        IF DelimiterFound
        THEN /\ pos_info[1].position_delimiter =
                    Some(IF FieldL(DelimiterAt) = 7 THEN "7,9" ELSE "9,9")
             /\ pos_info[1].position_a =
                    IF RegionA = <<>> THEN None ELSE decode_position_binary(RegionA).value
             /\ pos_info[1].position =
                    IF RegionB = <<>> THEN None ELSE decode_position_binary(RegionB).value
        ELSE /\ pos_info[1].position_delimiter = None
             /\ pos_info[1].position = None
             /\ pos_info[1].position_a = None

\* the prefix 9 is followed by 9,9: the delimiter is the pair behind the
\* prefix, not the prefix with its neighbour
C18_Witness ==
    /\ pos_info # None
    /\ Field = << <<9,0>>, <<9,0>>, <<9,0>>, <<1,1>> >>
    /\ pos_info[1].position_prefix = Some("9")
    /\ pos_info[1].position_delimiter = Some("9,9")
    /\ pos_info[1].position_a = None
    /\ pos_info[1].position = Some(1)

-----------------------------------------------------------------------------
(* Properties of message assembly (SpecMsg) *)

StatusKeys == {"raw_payload", "door", "door_desc", "sub_state", "light", "position_raw"}
PositionKeys == {"position", "position_a", "position_bits", "position_prefix",
                 "position_delimiter"}

\* C7: in the state of a TYPE-B message every field that is not one of the
\* five position fields holds what the status payload decoder computed from
\* the payload, whether or not the position field has a prefix and a delimiter.
C7_PositionStepFrame ==
    (message # None /\ message[1].name = "TYPE-B"
        /\ Len(message[1].symbols) > TYPE_B_HEADER_LEN) =>
        /\ message[1].state # None
        /\ DOMAIN message[1].state[1] = StatusKeys \cup PositionKeys
        /\ \A k \in StatusKeys :
              message[1].state[1][k] =
                  decode_type_b_state(From(message[1].symbols, TYPE_B_HEADER_LEN))[k]

\* a door and a light decoded, the position field without a delimiter
C7_Witness ==
    /\ message # None
    /\ message[1].name = "TYPE-B"
    /\ message[1].state # None
    /\ message[1].state[1].door = Some("IDLE_CLOSED")
    /\ message[1].state[1].light = Some("OFF")
    /\ message[1].state[1].position_prefix = Some("9")
    /\ message[1].state[1].position_delimiter = None
    /\ message[1].state[1].position = None

-----------------------------------------------------------------------------
(* Properties of the capture loader (SpecParse) *)

\* a row with the columns its format reads, all of them numbers
WellFormedRow(parts) ==
    IF col_count_of(header) = 3
    THEN Len(parts) >= 3 /\ parts[1].num /\ parts[2].num /\ parts[3].num
    ELSE Len(parts) >= 2 /\ parts[1].num /\ parts[2].num

\* C8 as stated: a malformed row is skipped without aborting, so the call
\* returns the transition lists that the well-formed rows alone give.
C8_MalformedRowsSkipped ==
    parsed # None =>
        /\ ~parsed[1].raised
        /\ parsed[1].channels =
              parse_capture(header, SelectSeq(lines, WellFormedRow)).channels

\* whether the format of the header reads wire w, and the column it reads it from
WireRead(w) == IF col_count_of(header) = 3 THEN TRUE ELSE single_channel_of(header) = w
WireColumn(w) == IF col_count_of(header) = 3 THEN w + 2 ELSE 2

\* the rows that open a run of equal levels on wire w
RunStarts(w) ==
    {i \in 1..Len(lines) :
        i = 1 \/ lines[i][WireColumn(w)].val # lines[i-1][WireColumn(w)].val}

\* the samples of the rows in I, in row order
SamplesAt(I, w) ==
    [k \in 1..Cardinality(I) |->
        LET i == CHOOSE i \in I : Cardinality({j \in I : j <= i}) = k
        IN  <<lines[i][1].val, lines[i][WireColumn(w)].val>>]

\* C23: after well-formed rows only, the list of a wire the format reads holds
\* the first sample of every run of equal levels, in row order, so it starts
\* with the first row's level and no two consecutive samples have the same
\* level; the list of a wire the format does not read is empty.
C23_DuplicateLevelsCollapsed ==
    (parsed # None /\ \A i \in 1..Len(lines) : WellFormedRow(lines[i])) =>
        /\ ~parsed[1].raised
        /\ \A w \in {0, 1} :
              LET list == parsed[1].channels[w + 1]
              IN  /\ list = IF WireRead(w) THEN SamplesAt(RunStarts(w), w) ELSE <<>>
                  /\ \A k \in 1..(Len(list) - 1) : list[k][2] # list[k+1][2]

\* three rows: wire 0 changes level at the third, wire 1 never
C23_Witness ==
    /\ parsed # None
    /\ col_count_of(header) = 3
    /\ Len(lines) = 3
    /\ \A i \in 1..3 : WellFormedRow(lines[i])
    /\ parsed[1].channels = << << <<1, 0>>, <<3, 1>> >>, << <<1, 1>> >> >>

-----------------------------------------------------------------------------
(* Properties of the capture analysis (SpecCapture) *)

\* the bursts of wire w in the capture, and those of one type, in order
BurstsOfWire(w) == find_bursts(parse_capture(CaptureHeader, capture).channels[w + 1])
BurstsOfType(w, type) == SelectSeq(BurstsOfWire(w), LAMBDA b : classify_burst(b) = type)
MessagesOfWire(w) == SelectSeq(analysis[1].messages, LAMBDA m : m.channel = w)

\* C9: every data burst of a wire yields exactly one Message, stamped with the
\* burst's first transition and the wire's id; carrier bursts are counted and
\* yield no Message, short bursts yield nothing; so the messages are as many
\* as the data bursts, and ch0_count + ch1_count is their number.
C9_OneMessagePerDataBurst ==
    analysis # None =>
        LET a == analysis[1]
        IN  /\ ~a.raised
            /\ \A w \in {0, 1} :
                  /\ Len(MessagesOfWire(w)) = Len(BurstsOfType(w, "data"))
                  /\ \A i \in 1..Len(BurstsOfType(w, "data")) :
                        Cardinality({k \in 1..Len(a.messages) :
                            /\ a.messages[k].channel = w
                            /\ a.messages[k].time = BurstsOfType(w, "data")[i][1][1]
                            /\ a.messages[k].symbols =
                                  decode_pwm(BurstsOfType(w, "data")[i])}) = 1
            /\ a.ch0_count = Len(BurstsOfType(0, "data"))
            /\ a.ch1_count = Len(BurstsOfType(1, "data"))
            /\ Len(a.messages) = Len(BurstsOfType(0, "data")) + Len(BurstsOfType(1, "data"))
            /\ a.ch0_count + a.ch1_count = Len(a.messages)
            /\ a.carrier_blocks =
                  Len(BurstsOfType(0, "carrier")) + Len(BurstsOfType(1, "carrier"))

\* a data burst on wire 0 and a carrier burst on wire 1
C9_Witness ==
    /\ analysis # None
    /\ Len(analysis[1].messages) = 1
    /\ analysis[1].messages[1].channel = 0
    /\ analysis[1].carrier_blocks = 1
    /\ Len(BurstsOfType(1, "carrier")) = 1

\* C10: the messages are in non-decreasing order of time over both wires, and
\* the messages of one wire follow the order of that wire's bursts.
C10_MessagesInTimeOrder ==
    analysis # None =>
        LET ms == analysis[1].messages
        IN  /\ \A i, j \in 1..Len(ms) : i < j => ms[i].time <= ms[j].time
            /\ \A w \in {0, 1} :
                  [i \in 1..Len(MessagesOfWire(w)) |-> MessagesOfWire(w)[i].time] =
                  [i \in 1..Len(BurstsOfType(w, "data")) |->
                      BurstsOfType(w, "data")[i][1][1]]

\* a message of wire 1 ahead of a later message of wire 0
C10_Witness ==
    /\ analysis # None
    /\ Len(analysis[1].messages) = 2
    /\ analysis[1].messages[1].channel = 1
    /\ analysis[1].messages[2].channel = 0
    /\ analysis[1].messages[1].time < analysis[1].messages[2].time

=============================================================================
